---- MODULE Spec2Model ----
(***************************************************************************)
(* State-machine model of the gddo database package                        *)
(* (src/database/database.go): the Redis store, the Lua scripts that       *)
(* mutate it atomically, and the Go methods of Database that call them.    *)
(*                                                                         *)
(* A string is a sequence of symbols.  A symbol is a one-character string  *)
(* ("a", "/", ".", " "), or a run of letters written as one symbol where   *)
(* the letters inside it never matter ("Package", "import:").              *)
(***************************************************************************)
EXTENDS Integers, Sequences, FiniteSets, TLC

----------------------------------------------------------------------------
(* Bounds of the model *)

\* Package ids that INCR maxPackageId may hand out before Put stops adding paths.
MaxId == 2
\* Multi-round-trip operations (Put, Block) that may be in flight at once.
MaxInflight == 1
\* The score, in units, up to which IncrementPopularScore events are drawn.
MaxPopular == 1
\* Longest string in the IsBlocked specification.
MaxLen == 3
\* Most members of the block set in the IsBlocked specification.
MaxBlock == 2
\* Queries that may be between their INCR and their return at once.
MaxQueries == 2
\* Temporary keys that INCR maxQueryId may hand out before Query stops.
MaxQueryId == 2
\* Longest list of paths handed to Packages.
MaxPaths == 2
\* IncrementCounter stops at a counter of MaxCounter (in units).
MaxCounter == 1

----------------------------------------------------------------------------
(* Strings *)

HasPrefix(s, p) == Len(p) <= Len(s) /\ SubSeq(s, 1, Len(p)) = p

HasSuffix(s, p) == Len(p) <= Len(s) /\ SubSeq(s, Len(s) - Len(p) + 1, Len(s)) = p

\* strings.Index(s, sub) >= 0
Contains(s, sub) ==
    \E i \in 1..(Len(s) - Len(sub) + 1) : SubSeq(s, i, i + Len(sub) - 1) = sub

\* strings.Index(s, sub), 0-based, -1 when absent
Index(s, sub) ==
    IF Contains(s, sub)
    THEN (CHOOSE i \in 1..(Len(s) - Len(sub) + 1) :
             /\ SubSeq(s, i, i + Len(sub) - 1) = sub
             /\ \A j \in 1..(i - 1) : SubSeq(s, j, j + Len(sub) - 1) # sub) - 1
    ELSE -1

RECURSIVE RunLen(_, _)
RunLen(s, seps) ==
    IF s = <<>> \/ Head(s) \in seps THEN 0 ELSE 1 + RunLen(Tail(s), seps)

\* The maximal runs of symbols outside seps, in order: Lua's
\* string.gmatch(s, '[^/]+') and Go's strings.FieldsFunc.
RECURSIVE Fields(_, _)
Fields(s, seps) ==
    IF s = <<>> THEN <<>>
    ELSE IF Head(s) \in seps THEN Fields(Tail(s), seps)
    ELSE LET n == RunLen(s, seps)
         IN  <<SubSeq(s, 1, n)>> \o Fields(SubSeq(s, n + 1, Len(s)), seps)

\* The members of a sequence.
Range(s) == {s[i] : i \in 1..Len(s)}

\* path.Base: the last element of the path, trailing slashes removed.
Base(p) ==
    LET segs == Fields(p, {"/"})
    IN  IF p = <<>> THEN <<".">>
        ELSE IF segs = <<>> THEN <<"/">>
        ELSE segs[Len(segs)]

----------------------------------------------------------------------------
(* Tokenizer (index.go part of src/database/database.go) *)

isStandardPackage(path) == ~Contains(path, <<".">>)

\* unicode.IsSpace, IsPunct or IsSymbol on the symbols of the model
TermSeps == {" ", "/", ".", ":", "-", ","}

normalizeProjectRoot(projectRoot) ==
    IF projectRoot = <<>> THEN <<"g", "o">> ELSE projectRoot

suggestPrefix(s) == IF Len(s) >= 2 THEN SubSeq(s, 1, 2) ELSE <<>>

\* strings.ToLower, on the symbols that have an upper-case form in the model
ToLowerSym(c) == IF c = "Package" THEN "package" ELSE c

ToLower(s) == [i \in 1..Len(s) |-> ToLowerSym(s[i])]

\* The stop-word list (stop.go) of the tokenizer.
stopWord == {<<"the">>, <<"a">>}

\* The suffix stemmer (stem.go) of the tokenizer.
stem(w) == IF w = <<"parsers">> THEN <<"parser">> ELSE w

RECURSIVE stemAll(_)
stemAll(ws) ==
    IF ws = <<>> THEN <<>>
    ELSE IF Head(ws) \in stopWord THEN stemAll(Tail(ws))
    ELSE <<stem(Head(ws))>> \o stemAll(Tail(ws))

parseQuery(q) == stemAll(Fields(ToLower(q), TermSeps))

\* A symbol that httpPat (https?://\S+) matches as a whole.
UrlSyms == {"http://u"}

StripUrls(s) == SelectSeq(s, LAMBDA c : c \notin UrlSyms)

\* doc.IsValidPath: a non-empty path of non-empty elements.
IsValidPath(p) ==
    /\ p # <<>>
    /\ Head(p) # "/"
    /\ p[Len(p)] # "/"
    /\ ~Contains(p, <<"/", "/">>)
    /\ " " \notin Range(p)

\* gosrc.IsValidRemotePath: a valid path whose first element is a host name.
IsValidRemotePath(p) ==
    /\ IsValidPath(p)
    /\ Contains(Fields(p, {"/"})[1], <<".">>)

----------------------------------------------------------------------------
(* Ranker.  A rank is kept in thousandths: 1000 is rank 1. *)

RankUnit == 1000

documentRank(pdoc) ==
    IF \/ pdoc.Name = <<>>
       \/ pdoc.IsCmd
       \/ pdoc.Errors
       \/ HasSuffix(pdoc.ImportPath, <<".", "g", "o">>)
    THEN 0
    ELSE IF \E i \in 1..Len(pdoc.Imports) :
                HasSuffix(pdoc.Imports[i], <<".", "g", "o">>)
    THEN 0
    ELSE IF ~pdoc.Truncated /\ ~pdoc.HasDecls
    THEN 0
    ELSE LET r0 == IF isStandardPackage(pdoc.ImportPath) THEN 1000 * RankUnit
                   ELSE IF HasPrefix(pdoc.ImportPath,
                              <<"c", "o", "d", "e", ".", "g", "o", "o", "g", "l", "e",
                                ".", "c", "o", "m", "/", "p", "/", "g", "o", ".">>)
                        THEN 500 * RankUnit
                   ELSE IF HasPrefix(pdoc.Synopsis,
                              <<"Package", " ">> \o pdoc.Name \o <<" ">>)
                        THEN 100 * RankUnit
                   ELSE IF Len(pdoc.Synopsis) > 0 THEN 10 * RankUnit
                   ELSE RankUnit
             below == SubSeq(pdoc.ImportPath, Len(pdoc.ProjectRoot) + 1,
                             Len(pdoc.ImportPath))
             r1 == IF Index(below, <<"/", "s", "r", "c", "/">>) > 0
                   THEN (r0 * 85) \div 100 ELSE r0
         IN  IF Base(pdoc.ImportPath) # pdoc.Name THEN (r1 * 9) \div 10 ELSE r1

\* Put calls documentScore; the ranker of this source is documentRank.
documentScore(pdoc) == documentRank(pdoc)

\* Synopsis terms that keep "package" wherever it stands.
synopsisTermsKeepAll(pdoc) ==
    LET fs == Fields(StripUrls(pdoc.Synopsis), TermSeps)
    IN  {stem(ToLower(fs[k])) : k \in {j \in 1..Len(fs) : ToLower(fs[j]) \notin stopWord}}

\* The synopsis terms: field i (from 0) is kept unless it is a stop word, or
\* is "package" at i <= 3.
synopsisTerms(pdoc) ==
    LET fs == Fields(StripUrls(pdoc.Synopsis), TermSeps)
    IN  {stem(ToLower(fs[k])) : k \in
            {j \in 1..Len(fs) :
                /\ ToLower(fs[j]) \notin stopWord
                /\ (j - 1 > 3 \/ ToLower(fs[j]) # <<"package">>)}}

\* Terms with all: for the standard packages too.
documentTermsAll(pdoc, rank) ==
    LET base == {<<"project:">> \o normalizeProjectRoot(pdoc.ProjectRoot)}
                \cup {<<"import:">> \o pdoc.Imports[i] :
                        i \in {j \in 1..Len(pdoc.Imports) : IsValidPath(pdoc.Imports[j])}}
        words == {<<"all:">>} \cup Range(parseQuery(pdoc.ImportPath))
                 \cup Range(parseQuery(pdoc.ProjectName))
                 \cup Range(parseQuery(pdoc.Name))
    IN  IF rank > 0 THEN base \cup words \cup synopsisTerms(pdoc) ELSE base

\* The set of terms of a document (the keys of the Go map).
documentTerms(pdoc, rank) ==
    LET projectRoot == normalizeProjectRoot(pdoc.ProjectRoot)
        base == {<<"project:">> \o projectRoot}
                \cup {<<"import:">> \o pdoc.Imports[i] :
                        i \in {j \in 1..Len(pdoc.Imports) : IsValidPath(pdoc.Imports[j])}}
        words == IF isStandardPackage(pdoc.ImportPath)
                 THEN Range(parseQuery(pdoc.ImportPath))
                 ELSE {<<"all:">>}
                      \cup Range(parseQuery(pdoc.ProjectName))
                      \cup Range(parseQuery(pdoc.Name))
        sug == LET s == suggestPrefix(Base(pdoc.ImportPath))
               IN  IF s # <<>> THEN {<<"suggest:">> \o s} ELSE {}
    IN  IF rank > 0 THEN base \cup words \cup synopsisTerms(pdoc) \cup sug ELSE base

----------------------------------------------------------------------------
(* The inputs of the model *)

\* Import paths: a project root and a package below it.
PRoot == <<"a", ".", "b">>
PSub == PRoot \o <<"/", "c">>
Paths == {PRoot, PSub}

Etags == {<<"v1">>}

\* Unix seconds passed as next-crawl times, and read from the clock.
Times == {1}
Nows == {2}

\* A Go time.Time is <<>> (the zero time) or <<t>> (t Unix seconds).
ZeroTime == <<>>
IsZero(tm) == tm = <<>>
Unix(tm) == tm[1]

\* The next-crawl times passed to Put.
PutTimes == {ZeroTime, <<5000>>}

\* Scaled times of IncrementPopularScore events.
PopTimes == {3}

BlockRoots == {PRoot}
ProjectRoots == {PRoot}
BadPaths == {PSub}

\* The project root the fetcher reports: the host element of a remote path,
\* empty for a standard package.
ProjectRootOf(path) ==
    IF isStandardPackage(path) THEN <<>> ELSE Fields(path, {"/"})[1]

\* A parsed package document as the fetcher hands it to Put.
MkDoc(path, imports, etag, decls) ==
    [ImportPath |-> path,
     ProjectRoot |-> ProjectRootOf(path),
     ProjectName |-> <<"b">>,
     Name |-> Base(path),
     IsCmd |-> FALSE,
     Synopsis |-> <<"Package", " ">> \o Base(path) \o <<" ", "parsers">>,
     Imports |-> imports,
     TestImports |-> <<>>,
     XTestImports |-> <<>>,
     Subdirectories |-> <<>>,
     Etag |-> etag,
     Errors |-> FALSE,
     Truncated |-> FALSE,
     HasDecls |-> decls,
     Large |-> FALSE,
     Updated |-> <<7>>]

\* One document for each path: the root imports the package below it.
Docs == {MkDoc(PRoot, <<PSub>>, <<"v1">>, TRUE), MkDoc(PSub, <<>>, <<"v1">>, TRUE)}

\* For the index: the root with and without an import and without
\* declarations (rank 0), and a standard package with and without
\* declarations (rank 0).
PStd == <<"c">>
IndexPaths == {PRoot, PStd}
IndexDocs ==
    {MkDoc(PRoot, <<PSub>>, <<"v1">>, TRUE), MkDoc(PRoot, <<>>, <<"v1">>, TRUE),
     MkDoc(PRoot, <<>>, <<"v1">>, FALSE),
     MkDoc(PStd, <<>>, <<"v1">>, TRUE), MkDoc(PStd, <<>>, <<"v1">>, FALSE)}

\* For the queries: the root, the package below it, a standard package, and
\* the package below the root as a directory without a package (kind d).
QueryPaths == {PRoot, PSub, PStd}
QueryDocs ==
    {MkDoc(PRoot, <<>>, <<"v1">>, TRUE), MkDoc(PSub, <<>>, <<"v1">>, TRUE),
     MkDoc(PStd, <<>>, <<"v1">>, TRUE),
     [MkDoc(PSub, <<>>, <<"v1">>, TRUE) EXCEPT !.Name = <<>>]}

\* The query strings: one term, two terms, and three that parse to no term
\* (empty, a separator, a stop word).
QueryInputs == {<<"c">>, <<"b">>, <<"c", " ", "b">>, <<>>, <<" ">>, <<"the">>}

\* For the popular scores: an event time that gives the factors e^4, e^3 and
\* 1 after popular:0 absent, 1 and 4, and scores, in thousandths, that a
\* rescale by e^3 takes below and above 0.05.
PopularTimes == {4}
PopularScores == {800, 1000, 1030, 2718}
PopularDocs == {pdoc \in QueryDocs : pdoc.Name # <<>>}

\* The pseudo-package of cgo, and the lists of paths asked of Packages: a
\* path may be stored, stored as a directory, absent, or twice in the list.
PC == <<"C">>
PackagePaths == {PRoot, PSub, PC}
RECURSIVE PathListsOf(_)
PathListsOf(n) ==
    IF n = 0 THEN {<<>>}
    ELSE PathListsOf(n - 1)
         \cup {Append(l, p) : l \in {m \in PathListsOf(n - 1) : Len(m) = n - 1},
                               p \in PackagePaths}
PathLists == PathListsOf(MaxPaths)

\* For the import graph: documents whose imports form a chain, a cycle
\* through the root, and a cycle of one; a root that lists an import twice,
\* and a root that lists itself.
GraphPaths == {PRoot, PSub, PStd}
GraphDocs ==
    {MkDoc(PRoot, <<PSub>>, <<"v1">>, TRUE), MkDoc(PRoot, <<PSub, PStd>>, <<"v1">>, TRUE),
     MkDoc(PSub, <<PRoot>>, <<"v1">>, TRUE), MkDoc(PSub, <<PStd>>, <<"v1">>, TRUE),
     MkDoc(PSub, <<PSub>>, <<"v1">>, TRUE), MkDoc(PStd, <<>>, <<"v1">>, TRUE)}
GraphRoots ==
    GraphDocs \cup {MkDoc(PRoot, <<PSub, PSub>>, <<"v1">>, TRUE),
                    MkDoc(PRoot, <<PRoot>>, <<"v1">>, TRUE)}

\* For the importers: the root with an import, without it, and with an
\* invalid import beside it; a standard package with the same import, as a
\* package and as a directory (an empty Name).
PInvalid == <<"/", "c">>
ImporterPaths == {PRoot, PStd}
ImporterDocs ==
    {MkDoc(PRoot, <<PSub>>, <<"v1">>, TRUE), MkDoc(PRoot, <<>>, <<"v1">>, TRUE),
     MkDoc(PRoot, <<PSub, PInvalid>>, <<"v1">>, TRUE),
     MkDoc(PStd, <<PSub>>, <<"v1">>, TRUE),
     [MkDoc(PStd, <<PSub>>, <<"v1">>, TRUE) EXCEPT !.Name = <<>>]}
ImportedPaths == {PSub, PInvalid, PRoot}

\* For the counters: one key, and the callbacks of Do by the ids of the
\* packages they fail on.
CounterKeys == {<<"k">>}
DoFails == {{}, {1}}

\* Paths the validator rejects: no host name, and a leading slash.
RejectedPaths == {PStd, <<"/">> \o PRoot}

\* For the reads: two next-crawl times, so that two packages may share one.
ReadTimes == {ZeroTime, <<1>>, <<5000>>}

\* For the crawl schedule: two packages of one project with different etags
\* and a standard package (project "go"); roots as the callers pass them,
\* the empty root among them; times at and after the Unix epoch.
ScheduleEtags == {<<"v1">>, <<"v2">>}
ScheduleDocs ==
    {MkDoc(PRoot, <<>>, <<"v1">>, TRUE), MkDoc(PSub, <<>>, <<"v2">>, TRUE),
     MkDoc(PStd, <<>>, <<"v1">>, TRUE)}
SchedulePaths == {PRoot, PSub, PStd}
ScheduleRoots == {PRoot, <<>>}
ScheduleTimes == {<<0>>, <<1>>}

\* For the clone field: the root with an import, with another etag and with
\* no etag, and the package below it; the etags written to clone fields,
\* the empty one among them.
\* For the frame of Put and Delete: the root and the package below it, which
\* share the terms of their project and of their synopsis, each with
\* declarations and without (rank 0, no terms).
LocalDocs ==
    {MkDoc(PRoot, <<PSub>>, <<"v1">>, TRUE), MkDoc(PRoot, <<>>, <<"v1">>, FALSE),
     MkDoc(PSub, <<>>, <<"v1">>, TRUE), MkDoc(PSub, <<>>, <<"v1">>, FALSE)}

CloneDocs ==
    {MkDoc(PRoot, <<PSub>>, <<"v1">>, TRUE), MkDoc(PRoot, <<PSub>>, <<"v2">>, TRUE),
     MkDoc(PRoot, <<PSub>>, <<>>, TRUE), MkDoc(PSub, <<>>, <<"v1">>, TRUE)}
CloneEtags == {<<"v1">>, <<>>}

\* For the crawl queues: the documents, and the root with the package below
\* it as an external test import and as a subdirectory.
CrawlDocs ==
    Docs \cup {[MkDoc(PRoot, <<>>, <<"v1">>, TRUE) EXCEPT
                   !.XTestImports = <<PSub>>, !.Subdirectories = << <<"c">> >>]}

\* For the ranker: import paths with their project roots, "/src/" right
\* after the root, further down, twice, at the end without its slash, and
\* absent; names equal to the last element, different and empty; synopses
\* "Package <name> ...", other and empty; with and without declarations.
PSrc == <<"/", "s", "r", "c">>
RankPaths ==
    {<<PRoot \o PSrc \o <<"/", "c">>, PRoot>>,
     <<PRoot \o <<"/", "r">> \o PSrc \o <<"/", "c">>, PRoot \o <<"/", "r">> >>,
     <<PRoot \o <<"/", "c">> \o PSrc \o <<"/", "c">>, PRoot>>,
     <<PRoot \o PSrc \o <<"/", "c">> \o PSrc \o <<"/", "c">>, PRoot>>,
     <<PRoot \o <<"/", "c">> \o PSrc, PRoot>>,
     <<PSub, PRoot>>,
     <<<<"c">> \o PSrc \o <<"/", "b">>, <<>> >>,
     <<<<"c">>, <<>> >>}
RankNames == {<<"c">>, <<"x">>, <<>>}
RankSynopses == {<<"Package", " ", "c", " ", "parsers">>, <<"parsers">>, <<>>}
RankDocs ==
    {[MkDoc(pp[1], <<>>, <<"v1">>, d) EXCEPT
         !.ProjectRoot = pp[2], !.Name = n, !.Synopsis = syn] :
        pp \in RankPaths, n \in RankNames, syn \in RankSynopses, d \in BOOLEAN}

\* For the terms: synopses of six tokens with "package" as the k-th, one
\* with a capital, one after a stop word and one after a URL; of a package
\* and of a standard package, with and without declarations.
SynopsisWith(k, w) ==
    [j \in 1..11 |-> IF j % 2 = 0 THEN " " ELSE IF (j + 1) \div 2 = k THEN w ELSE "c"]
TermSynopses ==
    {SynopsisWith(k, w) : k \in 1..6, w \in {"package", "Package"}}
    \cup {<<"the", " ", "c", " ", "c", " ", "c", " ", "package">>,
          <<"http://u", " ", "c", " ", "c", " ", "c", " ", "package">>,
          <<"c", " ", "parsers">>}
TermDocs ==
    {[MkDoc(path, <<>>, <<"v1">>, d) EXCEPT !.Synopsis = syn] :
        path \in {PSub, PStd}, syn \in TermSynopses, d \in BOOLEAN}

----------------------------------------------------------------------------
(* The Redis store *)

VARIABLES
    ids,            \* hash: import path -> package id
    maxPackageId,   \* string: the last id handed out
    pkg,            \* pkg:<id> hashes: id -> (field -> value)
    index,          \* index:<term> sets: term -> set of ids
    block,          \* set of blocked roots
    newCrawl,       \* set of paths to crawl
    badCrawl,       \* set of paths that failed to crawl
    nextCrawl,      \* sorted set: id -> Unix time of the next crawl
    popular,        \* sorted set: id -> score, in thousandths
    popular0,       \* popular:0, <<>> when the key is absent
    maxQueryId,     \* string: the last temporary key handed out
    tmp,            \* tmp:query-<n> sets: n -> set of ids
    counter,        \* counter:<key> strings: key -> [n, t], n in thousandths
    active,         \* the connections checked out of the pool
    gets,           \* the Pool.Get calls of the last call to return
    inflight,       \* the calls between two round trips
    ret             \* the values the last call to return has returned

store == <<ids, maxPackageId, pkg, index, block, newCrawl, badCrawl,
           nextCrawl, popular, popular0, maxQueryId, tmp, counter>>

vars == <<ids, maxPackageId, pkg, index, block, newCrawl, badCrawl,
          nextCrawl, popular, popular0, maxQueryId, tmp, counter, active, gets,
          inflight, ret>>

\* The store as one value, for the scripts, which map a store to a store.
Store ==
    [ids |-> ids, maxPackageId |-> maxPackageId, pkg |-> pkg, index |-> index,
     block |-> block, newCrawl |-> newCrawl, badCrawl |-> badCrawl,
     nextCrawl |-> nextCrawl, popular |-> popular, popular0 |-> popular0,
     maxQueryId |-> maxQueryId, tmp |-> tmp, counter |-> counter]

SetStore(st) ==
    /\ ids' = st.ids
    /\ maxPackageId' = st.maxPackageId
    /\ pkg' = st.pkg
    /\ index' = st.index
    /\ block' = st.block
    /\ newCrawl' = st.newCrawl
    /\ badCrawl' = st.badCrawl
    /\ nextCrawl' = st.nextCrawl
    /\ popular' = st.popular
    /\ popular0' = st.popular0
    /\ maxQueryId' = st.maxQueryId
    /\ tmp' = st.tmp
    /\ counter' = st.counter

\* The function f with key k set to v (HSET, ZADD).
With(f, k, v) == [x \in DOMAIN f \cup {k} |-> IF x = k THEN v ELSE f[x]]

\* The function f without key k (HDEL, ZREM, DEL).
Without(f, k) == [x \in DOMAIN f \ {k} |-> f[x]]

\* SADD and SREM on a family of sets; Redis drops a set that becomes empty.
SAdd(idx, key, m) ==
    With(idx, key, (IF key \in DOMAIN idx THEN idx[key] ELSE {}) \cup {m})

SRem(idx, key, m) ==
    IF key \notin DOMAIN idx THEN idx
    ELSE IF idx[key] \ {m} = {} THEN Without(idx, key)
    ELSE With(idx, key, idx[key] \ {m})

\* SMEMBERS
Members(idx, key) == IF key \in DOMAIN idx THEN idx[key] ELSE {}

\* A hash with no field: the key does not exist.
EmptyHash == <<>>

Hash(id, pkgs) == IF id \in DOMAIN pkgs THEN pkgs[id] ELSE EmptyHash

\* HSET on pkg:<id>, which creates the hash when it is absent.
HSetPkg(pkgs, id, field, v) == With(pkgs, id, With(Hash(id, pkgs), field, v))

----------------------------------------------------------------------------
(* The Lua scripts.  Redis runs a script atomically: each maps a store to   *)
(* the store it leaves.                                                     *)

\* A term delta that adds the new terms and removes none.
putIndexAddOnly(idx, old, new, id) ==
    LET RECURSIVE apply(_, _)
        apply(i, todo) ==
            IF todo = {} THEN i
            ELSE LET term == CHOOSE t \in todo : TRUE
                 IN  apply(IF term \in old THEN i ELSE SAdd(i, term, id), todo \ {term})
    IN  apply(idx, new)

\* A term delta that deletes the whole set of a term the package no longer
\* has.
putIndexDropsSet(idx, old, new, id) ==
    LET kept == [t \in DOMAIN idx \ (old \ new) |-> idx[t]]
        RECURSIVE apply(_, _)
        apply(i, todo) ==
            IF todo = {} THEN i
            ELSE LET term == CHOOSE t \in todo : TRUE
                 IN  apply(IF term \in old THEN i ELSE SAdd(i, term, id), todo \ {term})
    IN  apply(kept, new)

\* putScript's term delta: old terms weigh 1, new terms 2; weight 1 is
\* removed from the index, weight 2 added, weight 3 left alone.
putIndex(idx, old, new, id) ==
    LET x(term) == (IF term \in old THEN 1 ELSE 0) + (IF term \in new THEN 2 ELSE 0)
        RECURSIVE apply(_, _)
        apply(i, todo) ==
            IF todo = {} THEN i
            ELSE LET term == CHOOSE t \in todo : TRUE
                     j == IF x(term) = 1 THEN SRem(i, term, id)
                          ELSE IF x(term) = 2 THEN SAdd(i, term, id)
                          ELSE i
                 IN  apply(j, todo \ {term})
    IN  apply(idx, old \cup new)

\* A putScript that leaves the path in badCrawl.
putQueuesKeepBad(st, path) == [st EXCEPT !.newCrawl = @ \ {path}]

\* putScript's SREM of the path from badCrawl and newCrawl.
putQueues(st, path) == [st EXCEPT !.badCrawl = @ \ {path}, !.newCrawl = @ \ {path}]

\* A scheduling that does not test nextCrawl.
putScheduleAlways(st, id, t) ==
    [st EXCEPT !.nextCrawl = With(@, id, t),
               !.pkg = HSetPkg(@, id, "crawl", t)]

\* putScript's scheduling: with nextCrawl not '0', ZADD nextCrawl and HSET crawl.
putSchedule(st, id, t) ==
    IF t # 0
    THEN [st EXCEPT !.nextCrawl = With(@, id, t),
                    !.pkg = HSetPkg(@, id, "crawl", t)]
    ELSE st

\* An id one past the number of stored packages.
putNewIdByCount(st) == Cardinality(DOMAIN st.ids) + 1

\* INCR maxPackageId: the id of a path that has none.
putNewId(st) == st.maxPackageId + 1

\* A test that never finds the etag in the clone field.
putCloneNever(old, etag) == FALSE

\* putScript's test of the etag against the clone field of the stored hash.
putClone(old, etag) == etag # <<>> /\ "clone" \in DOMAIN old /\ old["clone"] = etag

putScript(st, path, synopsis, score, gob, terms, etag, kind, t) ==
    LET known == path \in DOMAIN st.ids
        id == IF known THEN st.ids[path] ELSE putNewId(st)
        st1 == IF known THEN st
               ELSE [st EXCEPT !.maxPackageId = id, !.ids = With(@, path, id)]
        old == Hash(id, st1.pkg)
        clone == putClone(old, etag)
        terms1 == IF clone THEN {} ELSE terms
        score1 == IF clone THEN 0 ELSE score
        oldTerms == IF "terms" \in DOMAIN old THEN old["terms"] ELSE {}
        st2 == putQueues([st1 EXCEPT !.index = putIndex(@, oldTerms, terms1, id)], path)
        st3 == putSchedule(st2, id, t)
        h == Hash(id, st3.pkg)
        h1 == With(With(With(With(With(With(With(h,
                  "path", path), "synopsis", synopsis), "score", score1),
                  "gob", gob), "terms", terms1), "etag", etag), "kind", kind)
    IN  [st3 EXCEPT !.pkg = With(@, id, h1)]

\* A test that admits a path of badCrawl.
addCrawlAdmitsBad(st, p) == p \notin DOMAIN st.ids

\* A test that admits a path of ids.
addCrawlAdmitsStored(st, p) == p \notin st.badCrawl

\* addCrawlScript's test of one argument.
addCrawlAdmits(st, p) == p \notin DOMAIN st.ids /\ p \notin st.badCrawl

addCrawlScript(st, args) ==
    [st EXCEPT !.newCrawl = @ \cup {p \in args : addCrawlAdmits(st, p)}]

\* An SREM loop that removes the id from no index.
deleteIndexNone(idx, terms, id) == idx

\* deleteScript's SREM of the id from the index of every term of the record.
deleteIndex(idx, terms, id) ==
    [t \in {u \in DOMAIN idx : ~(u \in terms /\ idx[u] = {id})} |->
        IF t \in terms THEN idx[t] \ {id} ELSE idx[t]]

\* A delete that forgets DEL pkg:<id>.
deleteScriptKeepsHash(st, path) ==
    IF path \notin DOMAIN st.ids THEN st
    ELSE LET id == st.ids[path]
             h == Hash(id, st.pkg)
             terms == IF "terms" \in DOMAIN h THEN h["terms"] ELSE {}
         IN  [st EXCEPT !.index = deleteIndex(@, terms, id),
                        !.nextCrawl = Without(@, id),
                        !.newCrawl = @ \ {path},
                        !.popular = Without(@, id),
                        !.ids = Without(@, path)]

\* A delete that leaves the two sorted sets as they are.
deleteScriptKeepsScores(st, path) ==
    IF path \notin DOMAIN st.ids THEN st
    ELSE LET id == st.ids[path]
             h == Hash(id, st.pkg)
             terms == IF "terms" \in DOMAIN h THEN h["terms"] ELSE {}
         IN  [st EXCEPT !.index = deleteIndex(@, terms, id),
                        !.newCrawl = @ \ {path},
                        !.pkg = Without(@, id),
                        !.ids = Without(@, path)]

deleteScript(st, path) ==
    IF path \notin DOMAIN st.ids THEN st
    ELSE LET id == st.ids[path]
             h == Hash(id, st.pkg)
             terms == IF "terms" \in DOMAIN h THEN h["terms"] ELSE {}
         IN  [st EXCEPT !.index = deleteIndex(@, terms, id),
                        !.nextCrawl = Without(@, id),
                        !.newCrawl = @ \ {path},
                        !.popular = Without(@, id),
                        !.pkg = Without(@, id),
                        !.ids = Without(@, path)]

\* SORT index:project:<root> GET #: the ids of the project, ascending.
RECURSIVE SortIds(_)
SortIds(S) ==
    IF S = {} THEN <<>>
    ELSE LET m == CHOOSE x \in S : \A y \in S : x <= y
         IN  <<m>> \o SortIds(S \ {m})

projectKey(root) == <<"project:">> \o root

\* A body that ZADDs the score and leaves the crawl field.
setNextCrawlOneScoreOnly(st, id, etag, t) ==
    LET h == Hash(id, st.pkg)
    IN  IF "etag" \in DOMAIN h /\ h["etag"] = etag
        THEN [st EXCEPT !.nextCrawl = With(@, id, t)]
        ELSE st

\* A body that does not compare the etag.
setNextCrawlOneAnyEtag(st, id, etag, t) ==
    [st EXCEPT !.nextCrawl = With(@, id, t),
               !.pkg = HSetPkg(@, id, "crawl", t)]

\* setNextCrawlEtagScript's body for one package of the project.
setNextCrawlOne(st, id, etag, t) ==
    LET h == Hash(id, st.pkg)
    IN  IF "etag" \in DOMAIN h /\ h["etag"] = etag
        THEN [st EXCEPT !.nextCrawl = With(@, id, t),
                        !.pkg = HSetPkg(@, id, "crawl", t)]
        ELSE st

RECURSIVE setNextCrawlLoop(_, _, _, _)
setNextCrawlLoop(st, pkgs, etag, t) ==
    IF pkgs = <<>> THEN st
    ELSE setNextCrawlLoop(setNextCrawlOne(st, Head(pkgs), etag, t), Tail(pkgs), etag, t)

setNextCrawlEtagScript(st, root, etag, t) ==
    setNextCrawlLoop(st, SortIds(Members(st.index, projectKey(root))), etag, t)

\* bumpCrawlScript's loop; nc is the script's local nextCrawl.
RECURSIVE bumpCrawlLoop(_, _, _, _)
bumpCrawlLoop(st, pkgs, now, nc) ==
    IF pkgs = <<>> THEN st
    ELSE LET id == Head(pkgs)
             h == Hash(id, st.pkg)
             t1 == IF "crawl" \in DOMAIN h THEN h["crawl"] ELSE 0
             st1 == IF t1 = 0 \/ now < t1
                    THEN [st EXCEPT !.pkg = HSetPkg(@, id, "crawl", now)]
                    ELSE st
             t2 == IF id \in DOMAIN st1.nextCrawl THEN st1.nextCrawl[id] ELSE 0
             bump == t2 = 0 \/ nc < t2
             st2 == IF bump THEN [st1 EXCEPT !.nextCrawl = With(@, id, nc)] ELSE st1
         IN  bumpCrawlLoop(st2, Tail(pkgs), now, IF bump THEN nc + 120 ELSE nc)

\* A bump that starts at now, not an hour after it.
bumpCrawlScriptNow(st, root, now) ==
    bumpCrawlLoop(st, SortIds(Members(st.index, projectKey(root))), now, now)

bumpCrawlScript(st, root, now) ==
    bumpCrawlLoop(st, SortIds(Members(st.index, projectKey(root))), now, now + 3600)

\* ZRANGE nextCrawl -1 -1: the member with the greatest score.
zrangeLast(z) ==
    IF DOMAIN z = {} THEN <<>>
    ELSE <<CHOOSE i \in DOMAIN z :
             \A j \in DOMAIN z : z[i] > z[j] \/ (z[i] = z[j] /\ i >= j)>>

\* ZRANGE nextCrawl 0 0: the member with the least score, the least member
\* among equal scores; <<>> when the sorted set is empty.
zrangeFirst(z) ==
    IF DOMAIN z = {} THEN <<>>
    ELSE <<CHOOSE i \in DOMAIN z :
             \A j \in DOMAIN z : z[i] < z[j] \/ (z[i] = z[j] /\ i <= j)>>

Dash == <<"-">>

\* A getDocScript that serves the head of nextCrawl for any path it
\* does not know.
getDocScriptAny(st, path) ==
    LET r == zrangeFirst(st.nextCrawl)
        dash == path = <<"-">> \/ path \notin DOMAIN st.ids
        found == IF dash THEN r # <<>> ELSE TRUE
        id == IF dash THEN r[1] ELSE st.ids[path]
    IN  IF ~found THEN <<>>
        ELSE LET h == Hash(id, st.pkg)
             IN  IF "gob" \notin DOMAIN h THEN <<>>
                 ELSE <<h["gob"], IF "crawl" \in DOMAIN h THEN h["crawl"] ELSE 0>>

\* getDocScript: <<>> for false, else <<gob, nextCrawl>>.
getDocScript(st, path) ==
    LET r == zrangeFirst(st.nextCrawl)
        found == IF path = Dash THEN r # <<>> ELSE path \in DOMAIN st.ids
        id == IF path = Dash THEN r[1] ELSE st.ids[path]
    IN  IF ~found THEN <<>>
        ELSE LET h == Hash(id, st.pkg)
             IN  IF "gob" \notin DOMAIN h THEN <<>>
                 ELSE <<h["gob"],
                        IF "crawl" \in DOMAIN h THEN h["crawl"]
                        ELSE IF id \in DOMAIN st.nextCrawl THEN st.nextCrawl[id]
                        ELSE 0>>

\* A loop that tests the whole path only.
RECURSIVE isBlockedLoopWhole(_, _, _)
isBlockedLoopWhole(blk, segs, path) ==
    IF segs = <<>> THEN 0
    ELSE LET p == path \o Head(segs)
         IN  IF Len(segs) = 1 THEN (IF p \in blk THEN 1 ELSE 0)
             ELSE isBlockedLoopWhole(blk, Tail(segs), p \o <<"/">>)

\* isBlockedScript's loop over the elements of the path.
RECURSIVE isBlockedLoop(_, _, _)
isBlockedLoop(blk, segs, path) ==
    IF segs = <<>> THEN 0
    ELSE LET p == path \o Head(segs)
         IN  IF p \in blk THEN 1 ELSE isBlockedLoop(blk, Tail(segs), p \o <<"/">>)

isBlockedScript(st, arg) == isBlockedLoop(st.block, Fields(arg, {"/"}), <<>>)

\* SORT index:project:<root> ... GET path GET synopsis GET kind, the rows as a
\* set (the callers modelled here do not read their order).
projectRows(st, root) ==
    {LET h == Hash(id, st.pkg)
     IN  [Path |-> IF "path" \in DOMAIN h THEN h["path"] ELSE <<>>,
          Synopsis |-> IF "synopsis" \in DOMAIN h THEN h["synopsis"] ELSE <<>>,
          Kind |-> IF "kind" \in DOMAIN h THEN h["kind"] ELSE ""] :
     id \in Members(st.index, projectKey(root))}

\* getSubdirsScript: the rows of the first root with any.
RECURSIVE getSubdirsScript(_, _)
getSubdirsScript(st, roots) ==
    IF roots = <<>> THEN {}
    ELSE IF projectRows(st, Head(roots)) # {} \/ Len(roots) = 1
         THEN projectRows(st, Head(roots))
         ELSE getSubdirsScript(st, Tail(roots))

\* math.exp on whole differences of scaled time, in thousandths.
ExpMilli(d) ==
    CASE d = 0 -> 1000
      [] d = 1 -> 2718
      [] d = 2 -> 7389
      [] d = 3 -> 20086
      [] d = 4 -> 54598
      [] d = -1 -> 368
      [] d = -2 -> 135
      [] d = -3 -> 50
      [] d = -4 -> 18

\* A rescale that removes no member.
popularRescaleKeepsAll(z, f) == [i \in DOMAIN z |-> (z[i] * 1000) \div f]

\* The rescale of incrementPopularScoreScript: ZUNIONSTORE with weight 1/f,
\* then ZREMRANGEBYSCORE -inf 0.05.
popularRescale(z, f) ==
    LET scaled == [i \in DOMAIN z |-> (z[i] * 1000) \div f]
    IN  [i \in {j \in DOMAIN z : z[j] * 1000 > 50 * f} |-> scaled[i]]

incrementPopularScoreScript(st, path, n, t) ==
    IF path \notin DOMAIN st.ids THEN st
    ELSE LET id == st.ids[path]
             t0 == IF st.popular0 = <<>> THEN 0 ELSE st.popular0[1]
             f == ExpMilli(t - t0)
             z == With(st.popular, id,
                       (IF id \in DOMAIN st.popular THEN st.popular[id] ELSE 0) + n * f)
         IN  IF f > 10 * 1000
             THEN [st EXCEPT !.popular0 = <<t>>, !.popular = popularRescale(z, f)]
             ELSE [st EXCEPT !.popular = z]

----------------------------------------------------------------------------
(* The Go side of the calls *)

\* gob encoding then snappy compression, and back.
Encode(pdoc) == [snappy |-> [gob |-> pdoc]]
Decode(b) == b.snappy.gob

\* Put's truncation of a document whose encoding exceeds 200000 bytes.
Truncate(pdoc) ==
    IF pdoc.Large THEN [pdoc EXCEPT !.Truncated = TRUE, !.HasDecls = FALSE] ELSE pdoc

Kind(pdoc) == IF pdoc.Name = <<>> THEN "d" ELSE IF pdoc.IsCmd THEN "c" ELSE "p"

\* The related paths Put hands to addCrawlScript.
relatedPaths(pdoc) ==
    {p \in Range(pdoc.Imports) \cup Range(pdoc.TestImports) \cup Range(pdoc.XTestImports) :
        IsValidRemotePath(p)}
    \cup (IF pdoc.ImportPath # pdoc.ProjectRoot /\ pdoc.ProjectRoot # <<>>
          THEN {pdoc.ProjectRoot} ELSE {})
    \cup {pdoc.ImportPath \o <<"/">> \o pdoc.Subdirectories[i] :
            i \in 1..Len(pdoc.Subdirectories)}

\* Put's first round trip: the store putScript.Do leaves.
putDo(st, pdoc, tm) ==
    LET score == documentScore(pdoc)
        terms == documentTerms(pdoc, score)
        t == IF IsZero(tm) THEN 0 ELSE Unix(tm)
    IN  putScript(st, pdoc.ImportPath, pdoc.Synopsis, score, Encode(Truncate(pdoc)),
                  terms, pdoc.Etag, Kind(pdoc), t)

\* getDoc: <<document or none, next crawl time, error>>.
getDoc(st, path) ==
    LET r == getDocScript(st, path)
    IN  IF r = <<>> THEN <<<<>>, ZeroTime, "">>
        ELSE LET pdoc == Decode(r[1])
             IN  <<<<pdoc>>, IF r[2] # 0 THEN <<r[2]>> ELSE pdoc.Updated, "">>

\* The roots getSubdirs tries for a path with no document: the path and up
\* to four of its parents.
RECURSIVE parentRoots(_, _)
parentRoots(path, n) ==
    IF n = 0 THEN <<>>
    ELSE LET segs == {i \in 1..Len(path) : path[i] = "/"}
         IN  IF segs = {} THEN <<path>>
             ELSE LET j == CHOOSE i \in segs : \A k \in segs : k <= i
                  IN  <<path>> \o parentRoots(SubSeq(path, 1, j - 1), n - 1)

getSubdirs(st, path, pdoc) ==
    LET rows == IF isStandardPackage(path) THEN getSubdirsScript(st, <<<<"g", "o">>>>)
                ELSE IF pdoc # <<>> THEN getSubdirsScript(st, <<pdoc[1].ProjectRoot>>)
                ELSE getSubdirsScript(st, parentRoots(path, 5))
    IN  {[Path |-> r.Path, Synopsis |-> r.Synopsis] :
            r \in {x \in rows : x.Kind \in {"p", "c"} /\ HasPrefix(x.Path, path \o <<"/">>)}}

\* A test that selects the root alone.
blockSelectsExact(key, root) == key = root

\* Block's test of one key of ids against the root.
blockSelects(key, root) ==
    key = root \/ (HasPrefix(key, root) /\ key[Len(root) + 1] = "/")

----------------------------------------------------------------------------
(* The calls.  A call that makes one round trip is one action; Put and     *)
(* Block make several, and other calls may run between them.  ret holds    *)
(* what the last call to return has returned, the error last ("" is nil).  *)

\* The pool: c := db.Pool.Get() and defer c.Close().  A call that returns in
\* the step that begins it has got one connection and closed it.
OneConn == active' = active /\ gets' = 1

\* A call that returns before db.Pool.Get().
NoConn == active' = active /\ gets' = 0

\* A call that got a connection and has round trips to make.
OpenConn == active' = active + 1 /\ UNCHANGED gets

\* A round trip of a call that has more to make.
KeepConn == UNCHANGED <<active, gets>>

\* A return that leaves the connection checked out.
CloseConnLeak == active' = active /\ gets' = 1

\* The return of a call that made several round trips: the deferred Close.
CloseConn == active' = active - 1 /\ gets' = 1

\* The step of a call that a later round trip continues.
Call(op, pc, args, keys, paths) ==
    [op |-> op, pc |-> pc, args |-> args, keys |-> keys, paths |-> paths]

Exists(path) ==
    /\ ret' = <<path \in DOMAIN ids, "">>
    /\ OneConn
    /\ UNCHANGED <<store, inflight>>

\* AddNewCrawl without the test of the path.
AddNewCrawlUnchecked(importPath) ==
    /\ SetStore(addCrawlScript(Store, {importPath}))
    /\ OneConn
    /\ ret' = <<"">>
    /\ UNCHANGED inflight

AddNewCrawl(importPath) ==
    /\ IF ~IsValidRemotePath(importPath)
       THEN /\ ret' = <<"bad path">>
            /\ NoConn
            /\ UNCHANGED store
       ELSE /\ SetStore(addCrawlScript(Store, {importPath}))
            /\ OneConn
            /\ ret' = <<"">>
    /\ UNCHANGED inflight

\* Put up to the return of putScript.Do; a full save goes on to PutAddCrawl.
Put(pdoc, tm) ==
    /\ pdoc.ImportPath \in DOMAIN ids \/ maxPackageId < MaxId
    /\ SetStore(putDo(Store, pdoc, tm))
    /\ IF IsZero(tm)
       THEN /\ ret' = <<"">>
            /\ OneConn
            /\ UNCHANGED inflight
       ELSE LET c == Call("Put", "addCrawl", <<pdoc, tm>>, {}, relatedPaths(pdoc))
            IN  /\ Cardinality(inflight) < MaxInflight
                /\ c \notin inflight
                /\ inflight' = inflight \cup {c}
                /\ OpenConn
                /\ UNCHANGED ret

\* Put's second round trip: addCrawlScript on the related paths.
PutAddCrawl(c) ==
    /\ c.op = "Put"
    /\ SetStore(addCrawlScript(Store, c.paths))
    /\ inflight' = inflight \ {c}
    /\ CloseConn
    /\ ret' = <<"">>

SetNextCrawlEtag(projectRoot, etag, tm) ==
    /\ SetStore(setNextCrawlEtagScript(Store, normalizeProjectRoot(projectRoot),
                                       etag, Unix(tm)))
    /\ ret' = <<"">>
    /\ OneConn
    /\ UNCHANGED inflight

BumpCrawl(projectRoot, now) ==
    /\ SetStore(bumpCrawlScript(Store, normalizeProjectRoot(projectRoot), now))
    /\ ret' = <<"">>
    /\ OneConn
    /\ UNCHANGED inflight

GetDoc(path) ==
    /\ ret' = getDoc(Store, path)
    /\ OneConn
    /\ UNCHANGED <<store, inflight>>

\* Get: getDoc, then getSubdirs for the document's path; both only read.
Get(path) ==
    LET r == getDoc(Store, path)
        p == IF r[1] # <<>> THEN r[1][1].ImportPath ELSE path
    IN  /\ ret' = <<r[1], getSubdirs(Store, p, r[1]), r[2], "">>
        /\ OneConn
        /\ UNCHANGED <<store, inflight>>

Delete(path) ==
    /\ SetStore(deleteScript(Store, path))
    /\ ret' = <<"">>
    /\ OneConn
    /\ UNCHANGED inflight

\* Block's first round trip: SADD block root.
Block(root) ==
    LET c == Call("Block", "hkeys", <<root>>, {}, {})
    IN  /\ Cardinality(inflight) < MaxInflight
        /\ c \notin inflight
        /\ SetStore([Store EXCEPT !.block = @ \cup {root}])
        /\ inflight' = inflight \cup {c}
        /\ OpenConn
        /\ UNCHANGED ret

\* Block's second round trip: HKEYS ids, of which it keeps the keys to delete.
\* inflight is a set: a call waits while another call is at the very point
\* it would move to.
BlockKeys(c) ==
    /\ c.op = "Block" /\ c.pc = "hkeys"
    /\ LET keys == {k \in DOMAIN ids : blockSelects(k, c.args[1])}
       IN  IF keys = {}
           THEN /\ inflight' = inflight \ {c}
                /\ CloseConn
                /\ ret' = <<"">>
           ELSE /\ Call("Block", "delete", c.args, keys, {}) \notin inflight
                /\ inflight' = (inflight \ {c})
                                 \cup {Call("Block", "delete", c.args, keys, {})}
                /\ KeepConn
                /\ UNCHANGED ret
    /\ UNCHANGED store

\* One deleteScript.Do of Block's loop; Block returns after the last.
BlockDelete(c, key) ==
    /\ c.op = "Block" /\ c.pc = "delete"
    /\ key \in c.keys
    /\ SetStore(deleteScript(Store, key))
    /\ IF c.keys = {key}
       THEN /\ inflight' = inflight \ {c}
            /\ CloseConn
            /\ ret' = <<"">>
       ELSE /\ Call("Block", "delete", c.args, c.keys \ {key}, {}) \notin inflight
            /\ inflight' = (inflight \ {c})
                             \cup {Call("Block", "delete", c.args, c.keys \ {key}, {})}
            /\ KeepConn
            /\ UNCHANGED ret

IsBlocked(path) ==
    /\ ret' = <<isBlockedScript(Store, path) = 1, "">>
    /\ OneConn
    /\ UNCHANGED <<store, inflight>>

IncrementPopularScore(path, t) ==
    /\ path \in DOMAIN ids /\ ids[path] \in DOMAIN popular
          => popular[ids[path]] < MaxPopular * 1000
    /\ SetStore(incrementPopularScoreScript(Store, path, 1, t))
    /\ ret' = <<"">>
    /\ OneConn
    /\ UNCHANGED inflight

\* A command that returns a member and leaves it in the set.
srandmember(st, path) == st

\* SPOP newCrawl, for the member Redis picks.
spop(st, path) == [st EXCEPT !.newCrawl = @ \ {path}]

\* PopNewCrawl: SPOP newCrawl, then getSubdirs, which only reads.
PopNewCrawl ==
    IF newCrawl = {}
    THEN /\ ret' = <<<<>>, FALSE, "">>
         /\ OneConn
         /\ UNCHANGED <<store, inflight>>
    ELSE \E path \in newCrawl :
            LET st == spop(Store, path)
            IN  /\ SetStore(st)
                /\ ret' = <<path, getSubdirs(st, path, <<>>) # {}, "">>
                /\ OneConn
                /\ UNCHANGED inflight

AddBadCrawl(path) ==
    /\ SetStore([Store EXCEPT !.badCrawl = @ \cup {path}])
    /\ ret' = <<"">>
    /\ OneConn
    /\ UNCHANGED inflight

----------------------------------------------------------------------------
(* Listings and queries *)

\* The byte the order of strings compares, for the symbols of the paths.
SymOrd(c) ==
    CASE c = "." -> 46
      [] c = "/" -> 47
      [] c = "C" -> 67
      [] c = "a" -> 97
      [] c = "b" -> 98
      [] c = "c" -> 99

\* s < t for Go strings and for Redis ALPHA sorting.
StrLess(s, t) ==
    \E k \in 1..(Len(s) + 1) :
        /\ k <= Len(t)
        /\ SubSeq(s, 1, k - 1) = SubSeq(t, 1, k - 1)
        /\ k = Len(s) + 1 \/ SymOrd(s[k]) < SymOrd(t[k])

\* A sequence of the members of S, least first by less.
SortSet(S, less(_, _)) ==
    [k \in 1..Cardinality(S) |->
        CHOOSE x \in S : Cardinality({y \in S : less(y, x)}) = k - 1]

\* HGET pkg:<id> <field>, nil read as the empty value.
Field(st, id, f, nil) ==
    IF id \in DOMAIN st.pkg /\ f \in DOMAIN st.pkg[id] THEN st.pkg[id][f] ELSE nil

\* GET pkg:*->path GET pkg:*->synopsis GET pkg:*->kind for one id.
Row(st, id) ==
    [Path |-> Field(st, id, "path", <<>>),
     Synopsis |-> Field(st, id, "synopsis", <<>>),
     Kind |-> Field(st, id, "kind", "")]

\* The synopsis packages gives the pseudo-package "C".
CSynopsis == <<"Package", " ", "C", " ", "pseudo">>

\* The other filter: every row, a directory too.
packagesAll(rows, all) ==
    [k \in 1..Len(rows) |->
        [Path |-> rows[k].Path,
         Synopsis |-> IF rows[k].Path = <<"C">> THEN CSynopsis ELSE rows[k].Synopsis]]

\* packages: the rows as Packages, without the directories unless all.
packages(rows, all) ==
    LET kept == SelectSeq(rows, LAMBDA r : all \/ r.Kind # "d")
    IN  [k \in 1..Len(kept) |->
            [Path |-> kept[k].Path,
             Synopsis |-> IF kept[k].Path = <<"C">> THEN CSynopsis ELSE kept[k].Synopsis]]

\* SORT key ALPHA BY pkg:*->path GET ...: the rows of the ids, by path, ids
\* of equal path by id.
sortByPath(st, S) ==
    LET less(i, j) == \/ StrLess(Row(st, i).Path, Row(st, j).Path)
                      \/ Row(st, i).Path = Row(st, j).Path /\ i < j
        order == SortSet(S, less)
    IN  [k \in 1..Len(order) |-> Row(st, order[k])]

getPackages(st, key, all) == packages(sortByPath(st, Members(st.index, key)), all)

\* The key of the packages of a project.
importKeyProject(path) == <<"project:">> \o path

\* "index:import:"+path.
importKey(path) == <<"import:">> \o path

\* ImporterCount: SCARD index:import:<path>.
importerCount(st, path) == Cardinality(Members(st.index, importKey(path)))

ImporterCount(path) ==
    /\ ret' = <<importerCount(Store, path), "">>
    /\ OneConn
    /\ UNCHANGED <<store, inflight>>

Importers(path) ==
    /\ ret' = <<getPackages(Store, importKey(path), FALSE), "">>
    /\ OneConn
    /\ UNCHANGED <<store, inflight>>

\* SORT key DESC BY pkg:*->score GET ...: greatest score first, ids of equal
\* score greatest id first.
sortByScore(st, S) ==
    LET less(i, j) == \/ Field(st, i, "score", 0) > Field(st, j, "score", 0)
                      \/ Field(st, i, "score", 0) = Field(st, j, "score", 0) /\ i > j
        order == SortSet(S, less)
    IN  [k \in 1..Len(order) |-> Row(st, order[k])]

\* SINTER of the index sets of the terms.
sinter(st, terms) ==
    {i \in Members(st.index, terms[1]) :
        \A k \in 1..Len(terms) : i \in Members(st.index, terms[k])}

\* A store that keeps the union of the index sets.
sinterstoreUnion(st, n, terms) ==
    [st EXCEPT !.tmp = With(@, n, UNION {Members(st.index, terms[k]) : k \in 1..Len(terms)})]

\* SINTERSTORE tmp:query-<n> index:<term>...: an empty result leaves no key.
sinterstore(st, n, terms) ==
    IF sinter(st, terms) = {}
    THEN [st EXCEPT !.tmp = Without(@, n)]
    ELSE [st EXCEPT !.tmp = With(@, n, sinter(st, terms))]

\* A test that lets the empty term list through.
queryEmptyNever(terms) == FALSE

\* Query's test of the parsed terms.
queryEmpty(terms) == Len(terms) = 0

\* One key for every query.
queryIdFixed(st) == 1

\* The n that INCR maxQueryId has returned.
queryId(st) == st.maxQueryId

\* Query's move of an exact match on a standard package to the top.
RECURSIVE queryTopFrom(_, _, _)
queryTopFrom(pkgs, q, i) ==
    IF i > Len(pkgs) \/ ~isStandardPackage(pkgs[i].Path) THEN pkgs
    ELSE IF HasSuffix(pkgs[i].Path, q)
    THEN [pkgs EXCEPT ![1] = pkgs[i], ![i] = pkgs[1]]
    ELSE queryTopFrom(pkgs, q, i + 1)

queryTop(pkgs, q) == queryTopFrom(pkgs, q, 1)

Queries == {c \in inflight : c.op = "Query"}

\* importGraphScript: synopsis and terms of a stored path, none otherwise.
importGraphScript(st, path) ==
    IF path \notin DOMAIN st.ids THEN <<>>
    ELSE <<[synopsis |-> st.pkg[st.ids[path]].synopsis,
            terms |-> st.pkg[st.ids[path]].terms]>>

\* The graph so far: nodes, edges as pairs of indexes from 0, and the index
\* of each path seen.
Graph(nodes, edges, idx) == [nodes |-> nodes, edges |-> edges, index |-> idx]

\* A first loop that looks a path up in index before it adds a node.
RECURSIVE graphImportsOnce(_, _)
graphImportsOnce(g, imports) ==
    IF imports = <<>> THEN g
    ELSE LET known == Head(imports) \in DOMAIN g.index
             j == IF known THEN g.index[Head(imports)] ELSE Len(g.nodes)
         IN  graphImportsOnce(
                 Graph(IF known THEN g.nodes
                       ELSE Append(g.nodes, [Path |-> Head(imports), Synopsis |-> <<>>]),
                       Append(g.edges, <<0, j>>),
                       With(g.index, Head(imports), j)),
                 Tail(imports))

\* ImportGraph's first loop: a node and an edge from the root for every
\* element of pdoc.Imports.
RECURSIVE graphImports(_, _)
graphImports(g, imports) ==
    IF imports = <<>> THEN g
    ELSE LET j == Len(g.nodes)
         IN  graphImports(Graph(Append(g.nodes, [Path |-> Head(imports), Synopsis |-> <<>>]),
                                Append(g.edges, <<0, j>>),
                                With(g.index, Head(imports), j)),
                          Tail(imports))

\* The loop over the import: terms of node i: an edge to each, and a node for
\* a path not yet in index.
RECURSIVE graphLinks(_, _, _)
graphLinks(g, i, paths) ==
    IF paths = <<>> THEN g
    ELSE LET known == Head(paths) \in DOMAIN g.index
             j == IF known THEN g.index[Head(paths)] ELSE Len(g.nodes)
         IN  graphLinks(
                 Graph(IF known THEN g.nodes
                       ELSE Append(g.nodes, [Path |-> Head(paths), Synopsis |-> <<>>]),
                       Append(g.edges, <<i, j>>),
                       With(g.index, Head(paths), j)),
                 i, Tail(paths))

\* The paths of the import: terms, and the orders strings.Fields may give
\* them in: terms is written from a Go map.
importsOf(terms) == {SubSeq(t, 2, Len(t)) : t \in {u \in terms : u[1] = "import:"}}
Orders(S) == {o \in [1..Cardinality(S) -> S] : \A k, l \in DOMAIN o : o[k] = o[l] => k = l}

Graphs == {c \in inflight : c.op = "ImportGraph"}

\* ImportGraph up to its main loop; it returns here when there is no node
\* beside the root.
ImportGraph(pdoc, hideStdDeps) ==
    LET g == graphImports(Graph(<<[Path |-> pdoc.ImportPath, Synopsis |-> pdoc.Synopsis]>>,
                                <<>>, With(<<>>, pdoc.ImportPath, 0)),
                          pdoc.Imports)
        c == Call("ImportGraph", "receive", <<hideStdDeps, g.nodes, g.edges, g.index, 1>>, {}, {})
    IN  IF Len(g.nodes) = 1
        THEN /\ ret' = <<g.nodes, g.edges, "">>
             /\ OneConn
             /\ UNCHANGED <<store, inflight>>
        ELSE /\ Cardinality(inflight) < MaxInflight
             /\ c \notin inflight
             /\ inflight' = inflight \cup {c}
             /\ OpenConn
             /\ UNCHANGED <<store, ret>>

\* One turn of the main loop: the reply for node i, and the return after the
\* last node.
ImportGraphReceive(c) ==
    /\ c.op = "ImportGraph"
    /\ LET i == c.args[5]
           path == c.args[2][i + 1].Path
           r == importGraphScript(Store, path)
           g0 == Graph(c.args[2], c.args[3], c.args[4])
       IN  \E g \in IF r = <<>> THEN {g0}
                     ELSE LET g1 == [g0 EXCEPT !.nodes[i + 1].Synopsis = r[1].synopsis]
                          IN  IF c.args[1] /\ isStandardPackage(path) THEN {g1}
                              ELSE {graphLinks(g1, i, o) : o \in Orders(importsOf(r[1].terms))} :
               IF i + 1 < Len(g.nodes)
               THEN LET d == Call("ImportGraph", "receive",
                                  <<c.args[1], g.nodes, g.edges, g.index, i + 1>>, {}, {})
                    IN  /\ d \notin inflight
                        /\ inflight' = (inflight \ {c}) \cup {d}
                        /\ KeepConn
                        /\ UNCHANGED ret
               ELSE /\ inflight' = inflight \ {c}
                    /\ CloseConn
                    /\ ret' = <<g.nodes, g.edges, "">>
    /\ UNCHANGED store

\* incrementCounterScript: the counter decayed to t plus n.  The EXPIRE of
\* the key is left out: the counters are read by no other call.
incrementCounterScript(st, key, n, t) ==
    LET n1 == IF key \in DOMAIN st.counter
              THEN n + (st.counter[key].n * ExpMilli(st.counter[key].t - t)) \div 1000
              ELSE n
    IN  [st EXCEPT !.counter = With(@, key, [n |-> n1, t |-> t])]

IncrementCounter(key, t) ==
    /\ key \in DOMAIN counter => counter[key].n < MaxCounter * 1000
    /\ SetStore(incrementCounterScript(Store, key, 1000, t))
    /\ ret' = <<incrementCounterScript(Store, key, 1000, t).counter[key].n, "">>
    /\ OneConn
    /\ UNCHANGED inflight

\* Do up to the reply of KEYS pkg:*; fails holds the ids of the packages on
\* which the callback f returns an error.
Do(fails) ==
    LET c == Call("Do", "hmget", <<>>, DOMAIN pkg, fails)
    IN  IF DOMAIN pkg = {}
        THEN /\ ret' = <<"">>
             /\ OneConn
             /\ UNCHANGED <<store, inflight>>
        ELSE /\ Cardinality(inflight) < MaxInflight
             /\ c \notin inflight
             /\ inflight' = inflight \cup {c}
             /\ OpenConn
             /\ UNCHANGED <<store, ret>>

\* One turn of Do's loop: HMGET and getSubdirs, which only read, and the
\* call of f; a key deleted since KEYS is passed over.
DoKey(c, key) ==
    /\ c.op = "Do"
    /\ key \in c.keys
    /\ IF key \in DOMAIN pkg /\ key \in c.paths
       THEN /\ inflight' = inflight \ {c}
            /\ CloseConn
            /\ ret' = <<"func error">>
       ELSE IF c.keys = {key}
       THEN /\ inflight' = inflight \ {c}
            /\ CloseConn
            /\ ret' = <<"">>
       ELSE /\ Call("Do", "hmget", <<>>, c.keys \ {key}, c.paths) \notin inflight
            /\ inflight' = (inflight \ {c})
                              \cup {Call("Do", "hmget", <<>>, c.keys \ {key}, c.paths)}
            /\ KeepConn
            /\ UNCHANGED ret
    /\ UNCHANGED store

\* packagesScript: path, synopsis and kind for each argument, kind u and an
\* empty synopsis for a path without an id.
packagesScript(st, paths) ==
    [k \in 1..Len(paths) |->
        IF paths[k] \in DOMAIN st.ids
        THEN [Path |-> paths[k],
              Synopsis |-> st.pkg[st.ids[paths[k]]].synopsis,
              Kind |-> st.pkg[st.ids[paths[k]]].kind]
        ELSE [Path |-> paths[k], Synopsis |-> <<>>, Kind |-> "u"]]

\* sort.Sort(byPath(pkgs)).
RECURSIVE sortPackages(_)
sortPackages(pkgs) ==
    IF pkgs = <<>> THEN <<>>
    ELSE LET rest == sortPackages(Tail(pkgs))
             before == SelectSeq(rest, LAMBDA r : StrLess(r.Path, Head(pkgs).Path))
             after == SelectSeq(rest, LAMBDA r : ~StrLess(r.Path, Head(pkgs).Path))
         IN  before \o <<Head(pkgs)>> \o after

Packages(paths) ==
    /\ ret' = <<sortPackages(packages(packagesScript(Store, paths), FALSE)), "">>
    /\ OneConn
    /\ UNCHANGED <<store, inflight>>

\* Query up to the reply of INCR maxQueryId; with no term it returns before
\* it gets a connection.  The three commands it then sends are QueryInter,
\* QuerySort and QueryDel: the server may run other clients' commands
\* between them.
Query(q) ==
    LET terms == parseQuery(q)
    IN  IF queryEmpty(terms)
        THEN /\ ret' = <<<<>>, "">>
             /\ NoConn
             /\ UNCHANGED <<store, inflight>>
        ELSE LET st == [Store EXCEPT !.maxQueryId = @ + 1]
                 c == Call("Query", "sinterstore", <<q, queryId(st), <<>>>>, {}, {})
             IN  /\ Cardinality(Queries) < MaxQueries
                 /\ maxQueryId < MaxQueryId
                 /\ c \notin inflight
                 /\ SetStore(st)
                 /\ inflight' = inflight \cup {c}
                 /\ OpenConn
                 /\ UNCHANGED ret

QueryInter(c) ==
    /\ c.op = "Query" /\ c.pc = "sinterstore"
    /\ SetStore(sinterstore(Store, c.args[2], parseQuery(c.args[1])))
    /\ inflight' = (inflight \ {c}) \cup {Call("Query", "sort", c.args, {}, {})}
    /\ KeepConn
    /\ UNCHANGED ret

QuerySort(c) ==
    /\ c.op = "Query" /\ c.pc = "sort"
    /\ LET rows == sortByScore(Store, Members(tmp, c.args[2]))
       IN  inflight' = (inflight \ {c})
                         \cup {Call("Query", "del", <<c.args[1], c.args[2], rows>>, {}, {})}
    /\ KeepConn
    /\ UNCHANGED <<store, ret>>

\* DEL tmp:query-<n>, and Query's return.
QueryDel(c) ==
    /\ c.op = "Query" /\ c.pc = "del"
    /\ SetStore([Store EXCEPT !.tmp = Without(@, c.args[2])])
    /\ inflight' = inflight \ {c}
    /\ CloseConn
    /\ ret' = <<queryTop(packages(c.args[3], FALSE), c.args[1]), "">>

----------------------------------------------------------------------------
(* The specification: an empty store, and any interleaving of the calls *)

Init ==
    /\ ids = <<>>
    /\ maxPackageId = 0
    /\ pkg = <<>>
    /\ index = <<>>
    /\ block = {}
    /\ newCrawl = {}
    /\ badCrawl = {}
    /\ nextCrawl = <<>>
    /\ popular = <<>>
    /\ popular0 = <<>>
    /\ maxQueryId = 0
    /\ tmp = <<>>
    /\ counter = <<>>
    /\ active = 0
    /\ gets = 0
    /\ inflight = {}
    /\ ret = <<"">>

\* The calls that write the store, BumpCrawl apart.
Writes ==
    \/ \E path \in Paths : AddNewCrawl(path)
    \/ \E pdoc \in Docs, tm \in PutTimes : Put(pdoc, tm)
    \/ \E c \in inflight : PutAddCrawl(c)
    \/ \E root \in ProjectRoots, etag \in Etags, t \in Times :
          SetNextCrawlEtag(root, etag, <<t>>)
    \/ \E path \in Paths : Delete(path)
    \/ \E root \in BlockRoots : Block(root)
    \/ \E c \in inflight : BlockKeys(c)
    \/ \E c \in inflight : \E key \in c.keys : BlockDelete(c, key)
    \/ \E path \in Paths, t \in PopTimes : IncrementPopularScore(path, t)
    \/ PopNewCrawl
    \/ \E path \in BadPaths : AddBadCrawl(path)

Bumps == \E root \in ProjectRoots, now \in Nows : BumpCrawl(root, now)

Next == Writes \/ Bumps

Spec == Init /\ [][Next]_vars

\* Put and Delete alone, on the documents of the index.
NextIndex ==
    \/ \E pdoc \in IndexDocs, tm \in PutTimes : Put(pdoc, tm)
    \/ \E c \in inflight : PutAddCrawl(c)
    \/ \E path \in IndexPaths : Delete(path)

SpecIndex == Init /\ [][NextIndex]_vars

\* The calls that write the crawl queues.
NextCrawl ==
    \/ \E path \in Paths \cup RejectedPaths : AddNewCrawl(path)
    \/ \E path \in Paths : AddBadCrawl(path)
    \/ PopNewCrawl
    \/ \E pdoc \in CrawlDocs, tm \in PutTimes : Put(pdoc, tm)
    \/ \E c \in inflight : PutAddCrawl(c)
    \/ \E path \in Paths : Delete(path)

SpecCrawl == Init /\ [][NextCrawl]_vars

\* Queries, interleaved with each other command by command, on a store that
\* Put and Delete write only while no Query is between its INCR and its return.
NextQuery ==
    \/ Queries = {} /\ \E pdoc \in QueryDocs : Put(pdoc, ZeroTime)
    \/ Queries = {} /\ \E path \in QueryPaths : Delete(path)
    \/ \E q \in QueryInputs : Query(q)
    \/ \E c \in inflight : QueryInter(c)
    \/ \E c \in inflight : QuerySort(c)
    \/ \E c \in inflight : QueryDel(c)

SpecQuery == Init /\ [][NextQuery]_vars

\* Packages on the stores that Put and Delete leave.
NextPackages ==
    \/ \E pdoc \in QueryDocs : Put(pdoc, ZeroTime)
    \/ \E path \in QueryPaths : Delete(path)
    \/ \E paths \in PathLists : Packages(paths)

SpecPackages == Init /\ [][NextPackages]_vars

\* ImportGraph on the stores that Put and Delete leave, which write only
\* while no traversal is under way.
NextGraph ==
    \/ Graphs = {} /\ \E pdoc \in GraphDocs : Put(pdoc, ZeroTime)
    \/ Graphs = {} /\ \E path \in GraphPaths : Delete(path)
    \/ \E pdoc \in GraphRoots, hideStdDeps \in BOOLEAN : ImportGraph(pdoc, hideStdDeps)
    \/ \E c \in inflight : ImportGraphReceive(c)

SpecGraph == Init /\ [][NextGraph]_vars

\* ImporterCount and Importers on the stores that Put and Delete leave.
NextImporters ==
    \/ \E pdoc \in ImporterDocs : Put(pdoc, ZeroTime)
    \/ \E path \in ImporterPaths : Delete(path)
    \/ \E path \in ImportedPaths : ImporterCount(path)
    \/ \E path \in ImportedPaths : Importers(path)

SpecImporters == Init /\ [][NextImporters]_vars

\* Every call, on one document without imports and a full save of it; the
\* calls that only read and the calls on the crawl times and the popular
\* scores are given paths that are not stored, and a Query or a Do begins
\* while no other call is under way (other calls begin during them).
NextPool ==
    \/ Put(MkDoc(PRoot, <<>>, <<"v1">>, TRUE), <<5000>>)
    \/ \E c \in inflight : PutAddCrawl(c)
    \/ Delete(PRoot)
    \/ Block(PRoot)
    \/ \E c \in inflight : BlockKeys(c)
    \/ \E c \in inflight : \E key \in c.keys : BlockDelete(c, key)
    \/ inflight = {} /\ \E q \in {<<"b">>, <<"the">>} : Query(q)
    \/ \E c \in inflight : QueryInter(c)
    \/ \E c \in inflight : QuerySort(c)
    \/ \E c \in inflight : QueryDel(c)
    \/ ImportGraph(MkDoc(PRoot, <<PSub>>, <<"v1">>, TRUE), FALSE)
    \/ \E c \in inflight : ImportGraphReceive(c)
    \/ inflight = {} /\ \E fails \in DoFails : Do(fails)
    \/ \E c \in inflight : \E key \in c.keys : DoKey(c, key)
    \/ \E path \in {PRoot, PStd} : AddNewCrawl(path)
    \/ PopNewCrawl
    \/ AddBadCrawl(PRoot)
    \/ \E key \in CounterKeys : IncrementCounter(key, 0)
    \/ Exists(PSub)
    \/ Get(PSub)
    \/ GetDoc(PSub)
    \/ IsBlocked(PSub)
    \/ Packages(<<PSub>>)
    \/ ImporterCount(PSub)
    \/ Importers(PSub)
    \/ BumpCrawl(PSub, 2)
    \/ SetNextCrawlEtag(PSub, <<"v1">>, <<1>>)
    \/ IncrementPopularScore(PSub, 3)

SpecPool == Init /\ [][NextPool]_vars

\* The calls that write the crawl field and the nextCrawl score.
NextSchedule ==
    \/ \E pdoc \in ScheduleDocs, tm \in ReadTimes : Put(pdoc, tm)
    \/ \E c \in inflight : PutAddCrawl(c)
    \/ \E root \in ScheduleRoots, etag \in ScheduleEtags, tm \in ScheduleTimes :
          SetNextCrawlEtag(root, etag, tm)
    \/ \E root \in ScheduleRoots, now \in Nows : BumpCrawl(root, now)
    \/ \E path \in SchedulePaths : Delete(path)

SpecSchedule == Init /\ [][NextSchedule]_vars

\* documentRank applied to a document: <<document, rank>>.
RankDocument(pdoc) ==
    /\ ret' = <<pdoc, documentRank(pdoc)>>
    /\ UNCHANGED <<store, active, gets, inflight>>

\* documentTerms applied to a document and its score: <<document, rank, terms>>.
TermsOfDocument(pdoc) ==
    /\ ret' = <<pdoc, documentScore(pdoc), documentTerms(pdoc, documentScore(pdoc))>>
    /\ UNCHANGED <<store, active, gets, inflight>>

\* The ranker and the term set on documents, as Put calls them.
NextTokens ==
    \/ \E pdoc \in RankDocs : RankDocument(pdoc)
    \/ \E pdoc \in TermDocs : TermsOfDocument(pdoc)

SpecTokens == Init /\ [][NextTokens]_vars

\* The fetcher marks a stored package as the clone of one with the etag:
\* HSET pkg:<id> clone etag.
SetClone(path, etag) ==
    /\ path \in DOMAIN ids
    /\ SetStore([Store EXCEPT !.pkg = HSetPkg(@, ids[path], "clone", etag)])
    /\ UNCHANGED <<active, gets, inflight, ret>>

\* Put and Delete on packages whose clone field the fetcher sets.
NextClone ==
    \/ \E pdoc \in CloneDocs, tm \in PutTimes : Put(pdoc, tm)
    \/ \E c \in inflight : PutAddCrawl(c)
    \/ \E path \in Paths : Delete(path)
    \/ \E path \in Paths, etag \in CloneEtags : SetClone(path, etag)

SpecClone == Init /\ [][NextClone]_vars

\* Put, Delete and the popularity events, on two packages of one project.
NextLocal ==
    \/ \E pdoc \in LocalDocs, tm \in PutTimes : Put(pdoc, tm)
    \/ \E c \in inflight : PutAddCrawl(c)
    \/ \E path \in Paths : Delete(path)
    \/ \E path \in Paths, t \in PopTimes : IncrementPopularScore(path, t)

SpecLocal == Init /\ [][NextLocal]_vars

\* The store of Init.
EmptyStore ==
    [ids |-> <<>>, maxPackageId |-> 0, pkg |-> <<>>, index |-> <<>>,
     block |-> {}, newCrawl |-> {}, badCrawl |-> {}, nextCrawl |-> <<>>,
     popular |-> <<>>, popular0 |-> <<>>, maxQueryId |-> 0, tmp |-> <<>>,
     counter |-> <<>>]

\* The store after a Put of each of the documents of S.
RECURSIVE StoreOf(_)
StoreOf(S) ==
    IF S = {} THEN EmptyStore
    ELSE LET pdoc == CHOOSE d \in S : \A e \in S : ~StrLess(e.ImportPath, d.ImportPath)
         IN  putDo(StoreOf(S \ {pdoc}), pdoc, ZeroTime)

\* IncrementPopularScore and Delete on three stored packages, from any
\* scores the events before may have left, popular:0 absent or set.
InitPopular ==
    /\ ids = StoreOf(PopularDocs).ids
    /\ maxPackageId = StoreOf(PopularDocs).maxPackageId
    /\ pkg = StoreOf(PopularDocs).pkg
    /\ index = StoreOf(PopularDocs).index
    /\ block = {}
    /\ newCrawl = {}
    /\ badCrawl = {}
    /\ nextCrawl = <<>>
    /\ \E S \in SUBSET DOMAIN StoreOf(PopularDocs).pkg : popular \in [S -> PopularScores]
    /\ popular0 \in {<<>>, <<1>>}
    /\ maxQueryId = 0
    /\ tmp = <<>>
    /\ counter = <<>>
    /\ active = 0
    /\ gets = 0
    /\ inflight = {}
    /\ ret = <<"">>

NextPopular ==
    \/ \E path \in QueryPaths, t \in PopularTimes : IncrementPopularScore(path, t)
    \/ \E path \in QueryPaths : Delete(path)

SpecPopular == InitPopular /\ [][NextPopular]_vars

\* The calls that schedule crawls, and the reads of documents.
NextRead ==
    \/ \E pdoc \in Docs, tm \in ReadTimes : Put(pdoc, tm)
    \/ \E c \in inflight : PutAddCrawl(c)
    \/ \E root \in ProjectRoots, etag \in Etags, t \in Times :
          SetNextCrawlEtag(root, etag, <<t>>)
    \/ Bumps
    \/ \E path \in Paths : Delete(path)
    \/ \E path \in Paths \cup {Dash} : GetDoc(path)
    \/ \E path \in Paths \cup {Dash} : Get(path)

SpecRead == Init /\ [][NextRead]_vars

\* The runs in which no Put of a path that a Block is deleting runs between
\* that Block's HKEYS and its return.
Under(path, root) == path = root \/ HasPrefix(path, root \o <<"/">>)

BlockDeleting(path) ==
    \E c \in inflight : c.op = "Block" /\ c.pc = "delete" /\ Under(path, c.args[1])

NextQuiet ==
    \/ \E pdoc \in Docs, tm \in PutTimes :
          ~BlockDeleting(pdoc.ImportPath) /\ Put(pdoc, tm)
    \/ \E c \in inflight : PutAddCrawl(c)
    \/ \E root \in BlockRoots \cup {PSub} : Block(root)
    \/ \E c \in inflight : BlockKeys(c)
    \/ \E c \in inflight : \E key \in c.keys : BlockDelete(c, key)
    \/ \E path \in Paths : IsBlocked(path)
    \/ \E path \in Paths : Exists(path)

SpecQuiet == Init /\ [][NextQuiet]_vars

\* IsBlocked on every string of at most MaxLen symbols, for every block set
\* of at most MaxBlock such strings (Block adds any root it is given).
RECURSIVE StrsOfLen(_)
StrsOfLen(n) ==
    IF n = 0 THEN {<<>>}
    ELSE {Append(w, c) : w \in StrsOfLen(n - 1), c \in {"a", "/"}}

Strs == UNION {StrsOfLen(n) : n \in 0..MaxLen}

\* The sets of at most n strings.
RECURSIVE BlockSets(_)
BlockSets(n) ==
    IF n = 0 THEN {{}}
    ELSE LET S == BlockSets(n - 1) IN S \cup {b \cup {r} : b \in S, r \in Strs}

InitBlocked ==
    /\ ids = <<>>
    /\ maxPackageId = 0
    /\ pkg = <<>>
    /\ index = <<>>
    /\ block \in BlockSets(MaxBlock)
    /\ newCrawl = {}
    /\ badCrawl = {}
    /\ nextCrawl = <<>>
    /\ popular = <<>>
    /\ popular0 = <<>>
    /\ maxQueryId = 0
    /\ tmp = <<>>
    /\ counter = <<>>
    /\ active = 0
    /\ gets = 0
    /\ inflight = {}
    /\ ret = <<"">>

NextBlocked == \E path \in Strs : IsBlocked(path)

SpecBlocked == InitBlocked /\ [][NextBlocked]_vars

----------------------------------------------------------------------------
(* The identifier bijection *)

HasField(i, f) == i \in DOMAIN pkg /\ f \in DOMAIN pkg[i]

\* C1: in every state reached by Put, Delete, Block, AddNewCrawl, AddBadCrawl,
\* PopNewCrawl, SetNextCrawlEtag, BumpCrawl and IncrementPopularScore, ids
\* maps p to i exactly when the hash pkg:i exists with its path field p:
\* every path of ids has its hash, every hash has its path in ids.
IdsBijection ==
    /\ \A p \in DOMAIN ids :
          HasField(ids[p], "path") /\ pkg[ids[p]]["path"] = p
    /\ \A i \in DOMAIN pkg :
          /\ "path" \in DOMAIN pkg[i]
          /\ pkg[i]["path"] \in DOMAIN ids
          /\ ids[pkg[i]["path"]] = i

\* The first package deleted, the root saved again under the second id and
\* bumped since.
IdsBijectionReached ==
    /\ maxPackageId = 2
    /\ DOMAIN ids = {PRoot}
    /\ ids[PRoot] = 2
    /\ DOMAIN pkg = {2}
    /\ 2 \in DOMAIN nextCrawl
    /\ nextCrawl[2] = 3602

----------------------------------------------------------------------------
(* The index *)

\* C2: in every state reached by Put (a second Put of a path with other
\* terms included) and Delete, i is a member of index:t exactly when pkg:i
\* exists and t is one of its terms; no index set is empty.
IndexMatchesTerms ==
    /\ \A t \in DOMAIN index :
          /\ index[t] # {}
          /\ \A i \in index[t] : HasField(i, "terms") /\ t \in pkg[i]["terms"]
    /\ \A i \in DOMAIN pkg :
          /\ "terms" \in DOMAIN pkg[i]
          /\ \A t \in pkg[i]["terms"] : t \in DOMAIN index /\ i \in index[t]

ImportTerm(path) == <<"import:">> \o path

\* The root was saved importing the package below it (which that Put has
\* queued), and saved again with no import: the import term is gone.
IndexMatchesTermsReached ==
    /\ PRoot \in DOMAIN ids
    /\ PSub \in newCrawl
    /\ inflight = {}
    /\ ImportTerm(PSub) \notin pkg[ids[PRoot]]["terms"]
    /\ ImportTerm(PSub) \notin DOMAIN index
    /\ pkg[ids[PRoot]]["terms"] # {}

----------------------------------------------------------------------------
(* The crawl queues *)

PutPost(path) ==
    /\ path \in DOMAIN ids'
    /\ path \notin newCrawl'
    /\ path \notin badCrawl'

\* C5: the step in which putScript runs for Put(doc, t) leaves doc's path in
\* ids and in neither newCrawl nor badCrawl, and the addCrawlScript step that
\* completes a full save changes none of the three for that path.
PutLeavesQueues ==
    [][/\ \A pdoc \in Docs, tm \in PutTimes :
            Put(pdoc, tm) => PutPost(pdoc.ImportPath)
       /\ \A c \in inflight :
            PutAddCrawl(c) =>
               LET path == c.args[1].ImportPath
               IN  /\ (path \in DOMAIN ids) = (path \in DOMAIN ids')
                   /\ (path \in newCrawl) = (path \in newCrawl')
                   /\ (path \in badCrawl) = (path \in badCrawl')]_vars

\* The one Put there has been saved the package below the root in full: it
\* is stored and scheduled, in neither queue, and its root, which is in
\* badCrawl, has not been queued.
PutLeavesQueuesReached ==
    /\ DOMAIN ids = {PSub}
    /\ maxPackageId = 1
    /\ nextCrawl = With(<<>>, 1, 5000)
    /\ inflight = {}
    /\ badCrawl = {PRoot}
    /\ newCrawl = {}

\* C6: a path enters newCrawl, by AddNewCrawl or by the enqueue at the end of
\* Put, only if it is in neither ids nor badCrawl when the script runs.
NewCrawlAdmission ==
    [][\A p \in newCrawl' \ newCrawl : p \notin DOMAIN ids /\ p \notin badCrawl]_vars

\* A full save of the root has completed and has not queued its import,
\* which is in badCrawl.
NewCrawlAdmissionReached ==
    /\ DOMAIN ids = {PRoot}
    /\ ids[PRoot] \in DOMAIN nextCrawl
    /\ inflight = {}
    /\ badCrawl = {PSub}
    /\ newCrawl = {}
    /\ maxPackageId = 1

----------------------------------------------------------------------------
(* Delete *)

NoKeyRefersTo(i) ==
    /\ i \notin DOMAIN pkg'
    /\ \A q \in DOMAIN ids' : ids'[q] # i
    /\ i \notin DOMAIN nextCrawl'
    /\ i \notin DOMAIN popular'
    /\ \A t \in DOMAIN index' : i \notin index'[t]

\* C7: Delete(p) of a stored path p with id i removes, in its one step, i from
\* every index set, from nextCrawl and from popular, the hash pkg:i, and p
\* from ids: afterwards ids, pkg, index, nextCrawl and popular do not hold i.
DeleteRemovesAll ==
    [][\A p \in Paths :
          (p \in DOMAIN ids /\ Delete(p)) => (p \notin DOMAIN ids' /\ NoKeyRefersTo(ids[p]))]_vars

\* The one package ever saved was scored popular, and has been deleted.
DeleteRemovesAllReached ==
    /\ maxPackageId = 1
    /\ popular0 # <<>>
    /\ ids = <<>>
    /\ pkg = <<>>
    /\ index = <<>>
    /\ nextCrawl = <<>>
    /\ popular = <<>>
    /\ inflight = {}

----------------------------------------------------------------------------
(* Blocking *)

\* The '/'-separated prefixes of a path, the path itself included.
SlashPrefixes(p) ==
    {SubSeq(p, 1, k) : k \in {j \in 1..Len(p) : j = Len(p) \/ p[j + 1] = "/"}}

NoBlockInFlight == \A c \in inflight : c.op # "Block"

BlockReturns(c) ==
    /\ c.op = "Block"
    /\ BlockKeys(c) \/ \E key \in c.keys : BlockDelete(c, key)
    /\ \A d \in inflight' : ~(d.op = "Block" /\ d.args = c.args)

----------------------------------------------------------------------------
(* The crawl field and the nextCrawl score *)

Scheduled == {i \in DOMAIN nextCrawl : HasField(i, "crawl")}

\* C4 as stated: in every state reached by Put, SetNextCrawlEtag, BumpCrawl
\* and Delete, the crawl field of pkg:i equals the score of i in nextCrawl
\* whenever both are set.
CrawlEqualsScore == \A i \in Scheduled : pkg[i]["crawl"] = nextCrawl[i]

\* C4 amended: the crawl field is never later than the score, and every call
\* other than BumpCrawl (Put, SetNextCrawlEtag, Delete) keeps the two equal
\* for every id that has both.
CrawlEqualsScoreButBump ==
    /\ [](\A i \in Scheduled : pkg[i]["crawl"] <= nextCrawl[i])
    /\ [][Bumps \/ (CrawlEqualsScore => CrawlEqualsScore')]_vars

\* Both packages were saved with next crawl 5000, and SetNextCrawlEtag has
\* since set crawl field and score of both to 1.
CrawlEqualsScoreReached ==
    /\ maxPackageId = 2
    /\ DOMAIN nextCrawl = {1, 2}
    /\ \A i \in {1, 2} : HasField(i, "crawl") /\ pkg[i]["crawl"] = 1 /\ nextCrawl[i] = 1
    /\ inflight = {}

----------------------------------------------------------------------------
(* Reading documents *)

NotFound == <<<<>>, ZeroTime, "">>

\* C8: GetDoc and Get of a path that is not in ids, and GetDoc("-") and
\* Get("-") with nextCrawl empty, return no document, the zero time and no
\* error, and leave the store as it was.
AbsentReadsNothing ==
    [][\A path \in Paths \cup {Dash} :
          (IF path = Dash THEN nextCrawl = <<>> ELSE path \notin DOMAIN ids) =>
             /\ GetDoc(path) => (ret' = NotFound /\ UNCHANGED store)
             /\ Get(path) =>
                  /\ Len(ret') = 4
                  /\ <<ret'[1], ret'[3], ret'[4]>> = NotFound
                  /\ UNCHANGED store]_vars

\* A read has found nothing in a store whose one package, saved in full, has
\* been deleted.
AbsentReadsNothingReached ==
    /\ ret = NotFound
    /\ maxPackageId = 1
    /\ ids = <<>>
    /\ nextCrawl = <<>>
    /\ newCrawl # {}
    /\ inflight = {}

\* What Put(pdoc, tm) with a next crawl time leaves: the score of the
\* package is the time, and GetDoc("-") would return a time no later, and,
\* when first(id), the document with that time.
PutSchedules(pdoc, tm, first(_)) ==
    LET id == ids'[pdoc.ImportPath]
        r == getDoc(Store, Dash)'
    IN  /\ id \in DOMAIN nextCrawl'
        /\ nextCrawl'[id] = Unix(tm)
        /\ r[3] = ""
        /\ r[2] # ZeroTime
        /\ Unix(r[2]) <= Unix(tm)
        /\ first(id) => (r[1] = <<pdoc>> /\ r[2] = tm)

\* The Puts with a next crawl time that have run putScript and not yet
\* addCrawlScript: the step of Put(doc, t) with t not zero adds one.
FullSaves == {c \in inflight : c.op = "Put"}

NoneSmaller(id) == \A j \in DOMAIN nextCrawl' \ {id} : nextCrawl'[j] >= nextCrawl'[id]

AllLarger(id) == \A j \in DOMAIN nextCrawl' \ {id} : nextCrawl'[j] > nextCrawl'[id]

\* C9 as stated: Put(doc, t) with t not zero leaves score t, a GetDoc("-")
\* that follows returns a time no later than t, and returns doc with time t
\* if no other member of nextCrawl has a smaller score.
PutIsNextCrawl ==
    [][\A c \in FullSaves' \ FullSaves :
          Put(c.args[1], c.args[2]) => PutSchedules(c.args[1], c.args[2], NoneSmaller)]_vars

\* C9 amended: the same, but doc is returned with time t if every other
\* member of nextCrawl has a larger score.
PutIsNextCrawlUnlessTied ==
    [][\A c \in FullSaves' \ FullSaves :
          Put(c.args[1], c.args[2]) => PutSchedules(c.args[1], c.args[2], AllLarger)]_vars

\* The root was saved with next crawl 5000, then the package below it with
\* next crawl 1, which GetDoc("-") has returned.
PutIsNextCrawlReached ==
    /\ DOMAIN ids = {PRoot, PSub}
    /\ nextCrawl = With(With(<<>>, ids[PRoot], 5000), ids[PSub], 1)
    /\ ids[PRoot] < ids[PSub]
    /\ Len(ret) = 3
    /\ ret[1] # <<>>
    /\ ret[1][1].ImportPath = PSub
    /\ ret[2] = <<1>>

----------------------------------------------------------------------------
(* IsBlocked *)

\* A path with no empty element: not empty, no '/' at either end, no "//".
NoEmptyElement(p) ==
    /\ p # <<>>
    /\ p[1] # "/"
    /\ p[Len(p)] # "/"
    /\ \A i \in 1..(Len(p) - 1) : ~(p[i] = "/" /\ p[i + 1] = "/")

BlockedIffPrefix(p) ==
    (isBlockedScript(Store, p) = 1) <=> (SlashPrefixes(p) \cap block # {})

SelectedIsBlocked(p) ==
    \A r \in block : blockSelects(p, r) => isBlockedScript(Store, p) = 1

\* C10 as stated: for every path p, IsBlocked(p) is true exactly when some
\* '/'-separated prefix of p, p included, is in block; and every path that
\* Block(r) selects is reported blocked once r is in block.
IsBlockedIffPrefix == \A p \in Strs : BlockedIffPrefix(p) /\ SelectedIsBlocked(p)

\* C10 amended: the same for every path with no empty element.
IsBlockedIffPrefixOfElements ==
    \A p \in Strs : NoEmptyElement(p) => (BlockedIffPrefix(p) /\ SelectedIsBlocked(p))

\* IsBlocked has returned true with "a" the one blocked root, and "a/a" not
\* blocked itself.
IsBlockedIffPrefixReached ==
    /\ block = {<<"a">>}
    /\ ret = <<TRUE, "">>
    /\ isBlockedScript(Store, <<"a", "/", "a">>) = 1

----------------------------------------------------------------------------
(* Query *)

\* The Query calls that return in this step.
QueryReturns == {c \in Queries : c.pc = "del" /\ c \notin inflight'}

\* The paths of the stored packages whose persisted terms hold every term
\* of q and whose kind is not d.
Matching(q) ==
    {pkg[i].path : i \in {j \in DOMAIN pkg :
        /\ Range(parseQuery(q)) \subseteq pkg[j].terms
        /\ pkg[j].kind # "d"}}

\* The paths of the stored directories without a package.
Directories == {pkg[i].path : i \in {j \in DOMAIN pkg : pkg[j].kind = "d"}}

\* C11: on a store not modified during the query, a Query with a non-empty
\* parsed term list returns, once each, exactly the stored packages whose
\* persisted terms contain every parsed term and whose kind is not d: every
\* such package, none that lacks a term, and none of kind d.
QueryReturnsMatching ==
    [][\A c \in QueryReturns :
          /\ {ret'[1][k].Path : k \in 1..Len(ret'[1])} = Matching(c.args[1])
          /\ \A k, l \in 1..Len(ret'[1]) : ret'[1][k].Path = ret'[1][l].Path => k = l
          /\ \A k \in 1..Len(ret'[1]) : ret'[1][k].Path \notin Directories
          /\ ret'[2] = ""]_vars

\* A two-term Query has returned one of two stored packages.
QueryReturnsMatchingReached ==
    /\ Len(ret) = 2
    /\ Len(ret[1]) = 1
    /\ ret[1][1].Path = PSub
    /\ PStd \in DOMAIN ids
    /\ inflight = {}

\* The query strings that parse to no term.
EmptyQueries == {q \in QueryInputs : parseQuery(q) = <<>>}

\* C12: a Query whose parsed term list is empty returns an empty result and
\* no error, and leaves the store as it was: maxQueryId is not incremented,
\* no tmp:query-<n> key is created, and no call is left in flight.
EmptyQueryReturnsNothing ==
    [][\A q \in EmptyQueries :
          Query(q) =>
              /\ ret' = <<<<>>, "">>
              /\ UNCHANGED <<store, inflight>>
              /\ maxQueryId' = maxQueryId /\ tmp' = tmp]_vars

\* A Query has returned the empty result from a store with two packages, each
\* with a term, and no other Query has run.
EmptyQueryReturnsNothingReached ==
    /\ Len(ret) = 2
    /\ ret[1] = <<>>
    /\ Cardinality(DOMAIN ids) = 2
    /\ \A i \in DOMAIN pkg : <<"parser">> \in pkg[i].terms
    /\ maxQueryId = 0
    /\ inflight = {}

\* The temporary keys of the Queries in flight.
QueryKeys == {c.args[2] : c \in Queries}

\* C20: Queries that interleave command by command do not interfere: no
\* two Queries in flight hold the same tmp:query-<n>, every temporary key
\* in the store is that of a Query in flight, each Query returns the
\* packages matching its own terms, and its key is gone when it returns.
QueriesDoNotInterfere ==
    /\ [](/\ \A c, d \in Queries : c.args[2] = d.args[2] => c = d
          /\ DOMAIN tmp \subseteq QueryKeys
          /\ \A n \in QueryKeys : n <= maxQueryId)
    /\ [][\A c \in QueryReturns :
            /\ {ret'[1][k].Path : k \in 1..Len(ret'[1])} = Matching(c.args[1])
            /\ c.args[2] \notin DOMAIN tmp']_vars

\* Two Queries are in flight, each with its own key in the store, and the
\* two keys hold different sets.
QueriesDoNotInterfereReached ==
    /\ Cardinality(Queries) = 2
    /\ QueryKeys \subseteq DOMAIN tmp
    /\ \E m, n \in DOMAIN tmp : tmp[m] # tmp[n]

----------------------------------------------------------------------------
(* Package ids *)

\* C13: package ids are stable and never reused: two paths never share an
\* id, every id is at most maxPackageId, maxPackageId never decreases, a
\* path that stays in ids keeps its id, and a path that enters ids gets an
\* id greater than maxPackageId was, so greater than every id handed out
\* before, those of deleted packages too.
IdsStable ==
    /\ [](\A p, q \in DOMAIN ids :
            /\ ids[p] = ids[q] => p = q
            /\ ids[p] >= 1 /\ ids[p] <= maxPackageId)
    /\ [][/\ maxPackageId' >= maxPackageId
          /\ \A p \in DOMAIN ids' :
                IF p \in DOMAIN ids THEN ids'[p] = ids[p]
                ELSE ids'[p] > maxPackageId /\ ids'[p] = maxPackageId']_vars

\* The only stored package has id 2: id 1 was handed out and is free.
IdsStableReached ==
    /\ DOMAIN ids = {PRoot}
    /\ ids[PRoot] = 2
    /\ maxPackageId = 2

----------------------------------------------------------------------------
(* Popular scores *)

\* The factor of an event at scaled time t, in thousandths.
Factor(t) == ExpMilli(t - (IF popular0 = <<>> THEN 0 ELSE popular0[1]))

\* popular after the ZINCRBY of an event on id with factor f.
Incremented(id, f) ==
    [i \in DOMAIN popular \cup {id} |->
        (IF i \in DOMAIN popular THEN popular[i] ELSE 0) + (IF i = id THEN f ELSE 0)]

\* C14: an IncrementPopularScore event with factor f > 10 sets popular:0 to
\* the event's scaled time, leaves in popular exactly the members whose
\* score times 1/f is more than 0.05, each with that score, and puts no
\* member that remains before one it was behind (scores in thousandths,
\* where two scores may round to one).
RescaleKeepsOrder ==
    [][\A path \in DOMAIN ids, t \in PopularTimes :
          Factor(t) > 10 * 1000 /\ IncrementPopularScore(path, t) =>
              LET f == Factor(t)
                  z == Incremented(ids[path], f)
              IN  /\ popular0' = <<t>>
                  /\ DOMAIN popular' = {i \in DOMAIN z : z[i] * 1000 > 50 * f}
                  /\ \A i \in DOMAIN popular' : popular'[i] = (z[i] * 1000) \div f
                  /\ \A i, j \in DOMAIN popular' :
                        z[i] < z[j] => popular'[i] <= popular'[j]]_vars

\* A rescale has happened that kept two members with different scores, the
\* member of the event among them, and removed the third.
RescaleKeepsOrderReached ==
    /\ popular0 = <<4>>
    /\ Cardinality(DOMAIN ids) = 3
    /\ Cardinality(DOMAIN popular) = 2
    /\ \E i, j \in DOMAIN popular : popular[i] = 1000 /\ popular[j] \in {51, 135}

----------------------------------------------------------------------------
(* Rejected paths *)

\* C15: AddNewCrawl of a path the validator rejects returns the error
\* "bad path", leaves every key of the store as it was, newCrawl, ids and
\* badCrawl among them, and gets no connection: no command is sent.
BadPathRejected ==
    [][\A p \in RejectedPaths :
          AddNewCrawl(p) =>
              /\ ret' = <<"bad path">>
              /\ UNCHANGED <<store, inflight, active>>
              /\ newCrawl' = newCrawl /\ ids' = ids /\ badCrawl' = badCrawl
              /\ gets' = 0]_vars

\* AddNewCrawl has rejected a path, on a store with a package, a path to
\* crawl and a bad path, and the rejected paths are in none of them.
BadPathRejectedReached ==
    /\ ret = <<"bad path">>
    /\ gets = 0
    /\ ids # <<>> /\ newCrawl # {} /\ badCrawl # {}
    /\ RejectedPaths \cap (DOMAIN ids \cup newCrawl \cup badCrawl) = {}

----------------------------------------------------------------------------
(* The connection pool *)

\* A step in which a call returns: it begins no round trip of its own.
Returns == inflight' \subseteq inflight

\* What a call returns when it returns before db.Pool.Get(): AddNewCrawl's
\* error for a rejected path, and Query's nil, nil for a query without terms.
ReturnedEarly(r) ==
    \/ Len(r) = 1 /\ r[1] = "bad path"
    \/ Len(r) = 2 /\ r[1] = <<>> /\ r[2] = ""

\* C16 as stated: every call checks out exactly one connection and has
\* returned it when it returns, so that the connections checked out are
\* those of the calls under way, and none when no call is under way.
PoolExactlyOne ==
    /\ [](active = Cardinality(inflight))
    /\ [][Returns => gets' = 1]_vars

\* C16: every call checks out at most one connection and has returned it
\* when it returns, with or without an error; the connections checked out
\* are those of the calls under way, none when no call is under way; and a
\* call that checks out none is an AddNewCrawl of a rejected path or a Query
\* without terms, which returns at once and leaves the store alone.
PoolAtMostOne ==
    /\ [](active = Cardinality(inflight))
    /\ [][Returns =>
            /\ gets' \in {0, 1}
            /\ gets' = 0 => /\ ReturnedEarly(ret')
                            /\ UNCHANGED <<store, inflight, active>>]_vars

\* Do has returned the error of its callback after a full save, a Block and
\* a Query made their round trips: a package is stored, a root is blocked,
\* a query got an id, and no connection is checked out.
PoolAtMostOneReached ==
    /\ Len(ret) = 1 /\ ret[1] = "func error"
    /\ gets = 1
    /\ inflight = {}
    /\ active = 0
    /\ pkg # <<>>
    /\ block # {}
    /\ maxQueryId > 0

----------------------------------------------------------------------------
(* Packages *)

\* How many times p is in the list paths, and in the Path fields of pkgs.
Asked(paths, p) == Cardinality({k \in 1..Len(paths) : paths[k] = p})
Listed(pkgs, p) == Cardinality({k \in 1..Len(pkgs) : pkgs[k].Path = p})

\* The synopsis stored for p, empty for a path that is not stored.
StoredSynopsis(p) == IF p \in DOMAIN ids THEN pkg[ids[p]].synopsis ELSE <<>>

IsDirectory(p) == p \in DOMAIN ids /\ pkg[ids[p]].kind = "d"

Sorted(pkgs) == \A k, l \in 1..Len(pkgs) : k < l => ~StrLess(pkgs[l].Path, pkgs[k].Path)

\* C17 as stated: Packages returns one entry for every path it is asked,
\* stored or not, a stored path with its stored synopsis and an absent path
\* with an empty synopsis, sorted by path.
PackagesOnePerPath ==
    [][\A paths \in PathLists :
          Packages(paths) =>
              /\ \A p \in PackagePaths : Listed(ret'[1], p) = Asked(paths, p)
              /\ \A k \in 1..Len(ret'[1]) :
                    ret'[1][k].Synopsis = StoredSynopsis(ret'[1][k].Path)
              /\ Sorted(ret'[1])]_vars

\* C17: Packages returns one entry for every path it is asked that is not
\* stored as a directory (kind d) and none for one that is; the entry of a
\* stored path has its stored synopsis, that of an absent path an empty one,
\* and that of the path C, stored or not, the synopsis of the cgo
\* pseudo-package; the entries are sorted by path and the error is nil.
PackagesOnePerPackage ==
    [][\A paths \in PathLists :
          Packages(paths) =>
              /\ \A p \in PackagePaths :
                    Listed(ret'[1], p) = IF IsDirectory(p) THEN 0 ELSE Asked(paths, p)
              /\ \A k \in 1..Len(ret'[1]) :
                    ret'[1][k].Synopsis =
                        IF ret'[1][k].Path = PC THEN CSynopsis
                        ELSE StoredSynopsis(ret'[1][k].Path)
              /\ Sorted(ret'[1])
              /\ ret'[2] = ""]_vars

\* Packages has returned the pseudo-package and a placeholder for an absent
\* path, in order, from a store that holds a directory.
PackagesOnePerPackageReached ==
    /\ Len(ret) = 2
    /\ Len(ret[1]) = 2
    /\ ret[1][1] = [Path |-> PC, Synopsis |-> CSynopsis]
    /\ ret[1][2] = [Path |-> PRoot, Synopsis |-> <<>>]
    /\ PRoot \notin DOMAIN ids
    /\ IsDirectory(PSub)

----------------------------------------------------------------------------
(* ImportGraph *)

\* The ImportGraph calls that return from the main loop in this step.
GraphReturns == {c \in Graphs : Graphs' = Graphs \ {c}}

NodesDistinct(nodes) == \A k, l \in 1..Len(nodes) : nodes[k].Path = nodes[l].Path => k = l

EdgesValid(nodes, edges) ==
    \A k \in 1..Len(edges) : \A e \in 1..2 : edges[k][e] \in 0..(Len(nodes) - 1)

\* C18: ImportGraph returns a node list in which no import path appears more
\* than once, with the root at node 0 and every edge a pair of indexes of
\* nodes, also when the import: terms of the store form cycles.
GraphNodesOnce ==
    /\ [](Len(ret) = 3 => NodesDistinct(ret[1]) /\ EdgesValid(ret[1], ret[2]))
    /\ [][\A c \in GraphReturns : ret'[1][1].Path = c.args[2][1].Path]_vars

\* ImportGraph has returned a node list with one path at two nodes.
GraphNodesTwiceReached ==
    /\ Len(ret) = 3
    /\ \E k, l \in 1..Len(ret[1]) : k < l /\ ret[1][k].Path = ret[1][l].Path

----------------------------------------------------------------------------
(* Importers *)

\* The ids of the stored packages whose document, as last Put, lists p among
\* its valid imports.
ImportersOf(p) ==
    {i \in DOMAIN pkg :
        /\ IsValidPath(p)
        /\ \E k \in 1..Len(Decode(pkg[i].gob).Imports) : Decode(pkg[i].gob).Imports[k] = p}

\* The paths Importers(p) returns.
ImportersListed(p) ==
    LET pkgs == getPackages(Store, importKey(p), FALSE)
    IN  {pkgs[k].Path : k \in 1..Len(pkgs)}

\* C19 as stated: after any Puts and Deletes ImporterCount(p) is the number
\* of stored packages whose last Put document lists p among its valid
\* imports, and Importers(p) returns exactly those packages.
ImportersAreAll ==
    \A p \in ImportedPaths :
        /\ importerCount(Store, p) = Cardinality(ImportersOf(p))
        /\ ImportersListed(p) = {pkg[i].path : i \in ImportersOf(p)}

\* C19: after any Puts and Deletes ImporterCount(p) is the number of stored
\* packages, directories (kind d) among them, whose last Put document
\* lists p among its valid imports, and Importers(p) returns, once each and
\* sorted by path, exactly those of them whose kind is not d.
ImportersAreAllButDirectories ==
    \A p \in ImportedPaths :
        /\ importerCount(Store, p) = Cardinality(ImportersOf(p))
        /\ ImportersListed(p) = {pkg[i].path : i \in {j \in ImportersOf(p) : pkg[j].kind # "d"}}
        /\ LET pkgs == getPackages(Store, importKey(p), FALSE)
           IN  /\ Sorted(pkgs)
               /\ NodesDistinct(pkgs)

\* A package and a directory import one path: ImporterCount of it is 2 and
\* Importers lists the package alone; the package also lists an invalid
\* import, which nothing is counted for.
ImportersAreAllButDirectoriesReached ==
    /\ importerCount(Store, PSub) = 2
    /\ ImportersListed(PSub) = {PRoot}
    /\ IsDirectory(PStd)
    /\ PInvalid \in Range(Decode(pkg[ids[PRoot]].gob).Imports)
    /\ importerCount(Store, PInvalid) = 0
    /\ gets = 1

----------------------------------------------------------------------------
(* BumpCrawl *)

\* The ids of index:project:<root>, for the root as the caller passes it.
Project(root) == Members(index, projectKey(normalizeProjectRoot(root)))

\* The score of id i in z, 0 when it has none (ZSCORE ... or 0).
Score(z, i) == IF i \in DOMAIN z THEN z[i] ELSE 0

\* The ids of P whose score the step assigns.
Assigned(P) == {i \in P : Score(nextCrawl, i) # Score(nextCrawl', i)}

\* The packages outside P are as they were.
OthersUntouched(P) ==
    /\ \A i \in DOMAIN pkg \ P : i \in DOMAIN pkg' /\ pkg'[i] = pkg[i]
    /\ \A i \in (DOMAIN nextCrawl \cup DOMAIN nextCrawl') \ P :
          i \in DOMAIN nextCrawl /\ i \in DOMAIN nextCrawl' /\ nextCrawl'[i] = nextCrawl[i]
    /\ UNCHANGED <<ids, index>>

\* The scores assigned are now + 3600, now + 3720, ... in the order of the ids.
AssignedSpaced(P, now) ==
    LET as == SortIds(Assigned(P))
    IN  \A j \in 1..Len(as) : nextCrawl'[as[j]] = now + 3600 + 120 * (j - 1)

CrawlAtMost(P, now) ==
    \A i \in P : HasField(i, "crawl")' /\ pkg'[i]["crawl"] <= now

\* C21 as stated: after BumpCrawl(root) at now every package of the project
\* has a crawl field of at most now and a score between now + 3600 and
\* now + 3600 + 120 k, k the number of packages of the project; the scores
\* assigned are 120 apart in the order of the ids; no other package changes.
BumpPacksScores ==
    [][\A root \in ScheduleRoots, now \in Nows :
          BumpCrawl(root, now) =>
             LET P == Project(root)
             IN  /\ CrawlAtMost(P, now)
                 /\ \A i \in P : /\ i \in DOMAIN nextCrawl'
                                 /\ nextCrawl'[i] >= now + 3600
                                 /\ nextCrawl'[i] <= now + 3600 + 120 * Cardinality(P)
                 /\ AssignedSpaced(P, now)
                 /\ OthersUntouched(P)]_vars

\* C21: after BumpCrawl(root) at now every package of the project has a
\* crawl field of at most now and a score of at most now + 3600 + 120 (k - 1);
\* a score is assigned to the packages that had none or 0 and to those whose
\* score was later than the next to assign, and every other score is kept,
\* also when it is earlier than now + 3600; the scores assigned are
\* now + 3600, now + 3720, ... in the order of the ids; a crawl field is
\* changed only to now; no other package changes.
BumpBoundsScores ==
    [][\A root \in ScheduleRoots, now \in Nows :
          BumpCrawl(root, now) =>
             LET P == Project(root)
             IN  /\ CrawlAtMost(P, now)
                 /\ \A i \in P :
                       /\ i \in DOMAIN nextCrawl'
                       /\ nextCrawl'[i] <= now + 3600 + 120 * (Cardinality(P) - 1)
                       /\ Score(nextCrawl, i) = 0 => i \in Assigned(P)
                       /\ (Score(nextCrawl, i) # 0 /\ i \in Assigned(P))
                             => nextCrawl'[i] < nextCrawl[i]
                       /\ (HasField(i, "crawl") /\ pkg'[i]["crawl"] # pkg[i]["crawl"])
                             => pkg'[i]["crawl"] = now
                 /\ AssignedSpaced(P, now)
                 /\ OthersUntouched(P)]_vars

\* A bump of project a.b at 2 has kept the score 1 of the first package,
\* earlier than 3602, and given the second the score 3602 and the crawl
\* field 2.
BumpBoundsScoresReached ==
    /\ DOMAIN ids = {PRoot, PSub}
    /\ ids[PRoot] < ids[PSub]
    /\ nextCrawl = With(With(<<>>, ids[PRoot], 1), ids[PSub], 3602)
    /\ pkg[ids[PRoot]]["crawl"] = 1
    /\ pkg[ids[PSub]]["crawl"] = 2

----------------------------------------------------------------------------
(* SetNextCrawlEtag *)

\* The packages of the project whose stored etag is the etag.
WithEtag(P, etag) == {i \in P : HasField(i, "etag") /\ pkg[i]["etag"] = etag}

\* pkg:i is as it was but for the crawl field, which is t.
CrawlSet(i, t) ==
    /\ DOMAIN pkg'[i] = DOMAIN pkg[i] \cup {"crawl"}
    /\ pkg'[i]["crawl"] = t
    /\ \A f \in DOMAIN pkg[i] \ {"crawl"} : pkg'[i][f] = pkg[i][f]

\* C22: SetNextCrawlEtag(root, etag, t) sets the crawl field and the score
\* to t for the packages of index:project:<root> whose stored etag is etag,
\* and changes no other package, score or key; an empty root is project go.
EtagSetsCrawl ==
    [][\A root \in ScheduleRoots, etag \in ScheduleEtags, tm \in ScheduleTimes :
          SetNextCrawlEtag(root, etag, tm) =>
             LET key == <<"project:">> \o (IF root = <<>> THEN <<"g", "o">> ELSE root)
                 M == WithEtag(Members(index, key), etag)
             IN  /\ \A i \in M : /\ i \in DOMAIN nextCrawl'
                                 /\ nextCrawl'[i] = Unix(tm)
                                 /\ CrawlSet(i, Unix(tm))
                 /\ OthersUntouched(M)
                 /\ DOMAIN pkg' = DOMAIN pkg
                 /\ UNCHANGED <<newCrawl, badCrawl, block, popular, maxPackageId>>]_vars

\* Both packages of project a.b were saved with next crawl 5000; since then
\* SetNextCrawlEtag with the etag of the first and the time 0 has set the
\* crawl field and the score of the first, and left the second.
EtagSetsCrawlReached ==
    /\ DOMAIN ids = {PRoot, PSub}
    /\ pkg[ids[PRoot]]["etag"] # pkg[ids[PSub]]["etag"]
    /\ nextCrawl = With(With(<<>>, ids[PRoot], 0), ids[PSub], 5000)
    /\ pkg[ids[PRoot]]["crawl"] = 0
    /\ pkg[ids[PSub]]["crawl"] = 5000

----------------------------------------------------------------------------
(* PopNewCrawl *)

\* C23: PopNewCrawl returns no error; on an empty newCrawl it returns the
\* empty path and changes nothing; otherwise the path it returns was in
\* newCrawl and is removed from it, alone and in the same step, and nothing
\* else is written; and two PopNewCrawl calls with no call between them
\* never return the same path.
PopRemovesOne ==
    [][PopNewCrawl =>
          /\ Len(ret') = 3
          /\ ret'[3] = ""
          /\ IF newCrawl = {}
             THEN ret'[1] = <<>> /\ ret'[2] = FALSE /\ UNCHANGED store
             ELSE /\ ret'[1] \in newCrawl
                  /\ newCrawl' = newCrawl \ {ret'[1]}
                  /\ UNCHANGED <<ids, pkg, index, badCrawl, nextCrawl, block,
                                 popular, maxPackageId>>
          /\ (Len(ret) = 3 /\ ret[1] = ret'[1]) => ret'[1] = <<>>]_vars

\* With nothing stored and two paths added, PopNewCrawl has returned the
\* first with the hint false, and the second is still in newCrawl.
PopRemovesOneReached ==
    /\ Len(ret) = 3
    /\ ret = <<PRoot, FALSE, "">>
    /\ newCrawl = {PSub}
    /\ ids = <<>>
    /\ maxPackageId = 0

----------------------------------------------------------------------------
(* The clone field *)

\* The store a whole Put leaves when no other call runs during it.
FullPut(st, pdoc, tm) ==
    IF IsZero(tm) THEN putDo(st, pdoc, tm)
    ELSE addCrawlScript(putDo(st, pdoc, tm), relatedPaths(pdoc))

\* The stored hash of the path of pdoc, empty when there is none.
StoredHash(pdoc) ==
    IF pdoc.ImportPath \in DOMAIN ids THEN Hash(ids[pdoc.ImportPath], pkg) ELSE EmptyHash

\* The etag of pdoc is not empty and is the clone field of the stored hash.
IsClone(pdoc) ==
    /\ pdoc.Etag # <<>>
    /\ "clone" \in DOMAIN StoredHash(pdoc)
    /\ StoredHash(pdoc)["clone"] = pdoc.Etag

\* What every step of Put(pdoc, tm) leaves: the path with the etag, and a
\* call under way exactly when tm is not zero.
PutLeft(pdoc, tm) ==
    /\ pdoc.ImportPath \in DOMAIN ids'
    /\ pkg'[ids'[pdoc.ImportPath]]["etag"] = pdoc.Etag
    /\ IF IsZero(tm) THEN inflight' = inflight
       ELSE inflight' # inflight /\ inflight \subseteq inflight'

\* C24: a Put whose etag is not empty and equals the stored clone field
\* writes path, synopsis, gob, etag and kind, stores no terms and score 0 and
\* leaves the id in no index set, and the same Put again changes nothing;
\* any other Put stores the terms and the score of the document and leaves
\* the id in the index set of each of the terms.
CloneStoresNoTerms ==
    [][\A pdoc \in CloneDocs, tm \in PutTimes :
          (PutLeft(pdoc, tm) /\ Put(pdoc, tm)) =>
             LET id == ids'[pdoc.ImportPath]
                 h == pkg'[id]
                 score == documentScore(pdoc)
                 terms == documentTerms(pdoc, score)
             IN  /\ h["path"] = pdoc.ImportPath
                 /\ h["synopsis"] = pdoc.Synopsis
                 /\ h["gob"] = Encode(Truncate(pdoc))
                 /\ h["etag"] = pdoc.Etag
                 /\ h["kind"] = Kind(pdoc)
                 /\ IF IsClone(pdoc)
                    THEN /\ h["terms"] = {}
                         /\ h["score"] = 0
                         /\ \A t \in DOMAIN index' : id \notin index'[t]
                         /\ FullPut(FullPut(Store, pdoc, tm), pdoc, tm)
                               = FullPut(Store, pdoc, tm)
                    ELSE /\ h["terms"] = terms
                         /\ h["score"] = score
                         /\ \A t \in terms : id \in Members(index', t)]_vars

\* The root, marked the clone of etag v1, was saved with etag v1: it has
\* no terms, score 0 and is in no index set, while the package below it,
\* saved as usual, is in the index of its project.
CloneStoresNoTermsReached ==
    /\ DOMAIN ids = {PRoot, PSub}
    /\ HasField(ids[PRoot], "clone")
    /\ pkg[ids[PRoot]]["clone"] = <<"v1">>
    /\ pkg[ids[PRoot]]["etag"] = <<"v1">>
    /\ pkg[ids[PRoot]]["terms"] = {}
    /\ pkg[ids[PRoot]]["score"] = 0
    /\ pkg[ids[PRoot]]["synopsis"] # <<>>
    /\ \A t \in DOMAIN index : ids[PRoot] \notin index[t]
    /\ Members(index, projectKey(PRoot)) = {ids[PSub]}

----------------------------------------------------------------------------
(* Partial and full saves *)

\* The crawl field of pkg:i in the hashes h, <<>> when it has none.
CrawlField(h, i) ==
    IF i \in DOMAIN h /\ "crawl" \in DOMAIN h[i] THEN <<h[i]["crawl"]>> ELSE <<>>

\* C25: Put(doc, zero time) returns after putScript, having written the
\* record and its terms to the index; it leaves nextCrawl and the crawl
\* field of the package as they were and adds nothing to newCrawl.  A Put
\* with a next crawl time sets score and crawl field to it and goes on to
\* addCrawlScript with the related paths, which alone adds to newCrawl.
PartialSaveSchedulesNothing ==
    [][\A pdoc \in CrawlDocs :
          LET path == pdoc.ImportPath
              old == IF path \in DOMAIN ids THEN ids[path] ELSE 0
              id == ids'[path]
          IN  /\ (PutLeft(pdoc, ZeroTime) /\ Put(pdoc, ZeroTime)) =>
                    /\ nextCrawl' = nextCrawl
                    /\ CrawlField(pkg', id) = CrawlField(pkg, old)
                    /\ newCrawl' = newCrawl \ {path}
                    /\ inflight' = inflight
                    /\ pkg'[id]["gob"] = Encode(Truncate(pdoc))
                    /\ \A t \in documentTerms(pdoc, documentScore(pdoc)) :
                          id \in Members(index', t)
              /\ \A tm \in PutTimes \ {ZeroTime} :
                    (PutLeft(pdoc, tm) /\ Put(pdoc, tm)) =>
                       /\ nextCrawl'[id] = Unix(tm)
                       /\ CrawlField(pkg', id) = <<Unix(tm)>>
                       /\ newCrawl' = newCrawl \ {path}
                       /\ \E c \in inflight' \ inflight :
                             c.op = "Put" /\ c.paths = relatedPaths(pdoc)
              /\ \A c \in inflight :
                    PutAddCrawl(c) =>
                       newCrawl' = newCrawl \cup
                          {p \in c.paths : p \notin DOMAIN ids /\ p \notin badCrawl}]_vars

\* The root was saved in full, which put the package below it, its import,
\* in newCrawl; the package was then saved with the zero time: it is out of
\* newCrawl, has no score and no crawl field, and newCrawl is empty though
\* the root is a related path of it.
PartialSaveSchedulesNothingReached ==
    /\ DOMAIN ids = {PRoot, PSub}
    /\ ids[PRoot] < ids[PSub]
    /\ nextCrawl = With(<<>>, ids[PRoot], 5000)
    /\ CrawlField(pkg, ids[PRoot]) = <<5000>>
    /\ CrawlField(pkg, ids[PSub]) = <<>>
    /\ PRoot \in relatedPaths(Decode(pkg[ids[PSub]]["gob"]))
    /\ newCrawl = {}
    /\ inflight = {}

----------------------------------------------------------------------------
(* The ranker *)

\* The rank before the multipliers, in thousandths: 0 for a document that is
\* not ranked, else 1000, 500, 100, 10 or 1.
BaseRank(pdoc) ==
    IF \/ pdoc.Name = <<>> \/ pdoc.IsCmd \/ pdoc.Errors
       \/ HasSuffix(pdoc.ImportPath, <<".", "g", "o">>)
       \/ \E i \in 1..Len(pdoc.Imports) : HasSuffix(pdoc.Imports[i], <<".", "g", "o">>)
       \/ (~pdoc.Truncated /\ ~pdoc.HasDecls)
    THEN 0
    ELSE IF ~Contains(pdoc.ImportPath, <<".">>) THEN 1000000
    ELSE IF HasPrefix(pdoc.Synopsis, <<"Package", " ">> \o pdoc.Name \o <<" ">>) THEN 100000
    ELSE IF pdoc.Synopsis # <<>> THEN 10000
    ELSE 1000

\* The part of the import path below the project root.
BelowRoot(pdoc) == SubSeq(pdoc.ImportPath, Len(pdoc.ProjectRoot) + 1, Len(pdoc.ImportPath))

\* The rank with the multipliers applied when src and other hold.
Multiplied(r, src, other) ==
    LET r1 == IF src THEN (r * 85) \div 100 ELSE r
    IN  IF other THEN (r1 * 9) \div 10 ELSE r1

Ranked == Len(ret) = 2

\* C26 as stated: the rank of a document is its base rank, times 0.85 when
\* the path below the project root contains /src/ anywhere, right after the
\* root included, times 0.9 when the last element of the path is not the
\* package name, and the base rank itself when neither holds.
RankMultipliesAnySrc ==
    Ranked =>
        ret[2] = Multiplied(BaseRank(ret[1]),
                            Contains(BelowRoot(ret[1]), PSrc \o <<"/">>),
                            Base(ret[1].ImportPath) # ret[1].Name)

\* The document a.b/r/src/c of project a.b/r, named c and with the synopsis
\* "Package c parsers", has the rank 100 of its base: /src/ right after the
\* root does not lower it.
RankMultipliesAnySrcReached ==
    /\ Ranked
    /\ ret[1].ProjectRoot = PRoot \o <<"/", "r">>
    /\ ret[1].ImportPath = ret[1].ProjectRoot \o PSrc \o <<"/", "c">>
    /\ ret[1].Name = <<"c">>
    /\ BaseRank(ret[1]) = 100000
    /\ ret[2] = 100000

----------------------------------------------------------------------------
(* The token "package" *)

Termed == Len(ret) = 3

\* The positions, from 1, of the token "package" among the tokens of the
\* synopsis with its URLs removed, stop words counted.
PackageAt(pdoc) ==
    LET fs == Fields(StripUrls(pdoc.Synopsis), TermSeps)
    IN  {k \in 1..Len(fs) : ToLower(fs[k]) = <<"package">>}

PackageIsTerm == stem(<<"package">>) \in ret[3]

\* C27 as stated: in the terms of a document of rank > 0 the synopsis token
\* "package" is a term when it is one of the first three tokens, and is
\* dropped at any later position.
PackageKeptInFirstThree ==
    (Termed /\ ret[2] > 0) =>
        (PackageIsTerm <=> \E k \in PackageAt(ret[1]) : k <= 3)

\* C27: in the terms of a document of rank > 0 the synopsis token "package"
\* is dropped when it is one of the first four tokens and is a term when it
\* is the fifth or a later one; a document of rank 0 has no synopsis terms.
PackageDroppedInFirstFour ==
    Termed =>
        /\ ret[2] > 0 => (PackageIsTerm <=> \E k \in PackageAt(ret[1]) : k >= 5)
        /\ ret[2] = 0 => ~PackageIsTerm

\* The terms of a ranked document whose synopsis has "package" as its
\* fifth token hold it, next to the term of the other tokens.
PackageDroppedInFirstFourReached ==
    /\ Termed
    /\ ret[2] > 0
    /\ PackageAt(ret[1]) = {5}
    /\ PackageIsTerm
    /\ <<"c">> \in ret[3]

----------------------------------------------------------------------------
(* index:all: *)

\* The ids of the stored packages whose stored score is above 0.
Ranked0 == {i \in DOMAIN pkg : HasField(i, "score") /\ pkg[i]["score"] > 0}

\* C28 as stated: after any Puts and Deletes index:all: holds exactly the
\* ids of the stored packages of rank > 0, standard or not.
AllHoldsRanked == Members(index, <<"all:">>) = Ranked0

\* C28: after any Puts and Deletes index:all: holds exactly the ids of the
\* stored packages of rank > 0 whose path is not that of a standard package
\* (has a "."): no standard package and no package of rank 0 is a member.
AllHoldsRankedRemote ==
    Members(index, <<"all:">>) = {i \in Ranked0 : Contains(pkg[i]["path"], <<".">>)}

\* The root and the standard package are both stored with a rank above 0:
\* index:all: holds the root alone.
AllHoldsRankedRemoteReached ==
    /\ DOMAIN ids = {PRoot, PStd}
    /\ Ranked0 = {ids[PRoot], ids[PStd]}
    /\ Members(index, <<"all:">>) = {ids[PRoot]}
    /\ inflight = {}

----------------------------------------------------------------------------
(* ids and newCrawl *)

\* C29: in every state reached by any interleaving of Put (putScript and
\* addCrawlScript in two round trips), Delete, Block, AddNewCrawl and
\* PopNewCrawl, and the other calls, no path is both a key of ids and a
\* member of newCrawl.
NoStoredPathQueued == DOMAIN ids \cap newCrawl = {}

\* A full save is between its two round trips, and a related path it is
\* about to hand to addCrawlScript has been stored by another Put since.
NoStoredPathQueuedReached ==
    \E c \in inflight :
        /\ c.op = "Put"
        /\ c.paths # {}
        /\ c.paths \subseteq DOMAIN ids
        /\ c.args[1].ImportPath \in DOMAIN ids
        /\ ids[c.args[1].ImportPath] < maxPackageId

----------------------------------------------------------------------------
(* The ids of the sorted sets *)

\* The id i is the id of a stored package: a path has it in ids, and the
\* hash pkg:i exists.
Stored(i) == i \in DOMAIN pkg /\ \E p \in DOMAIN ids : ids[p] = i

\* The ids handed out so far that no package has now: those of deleted
\* packages.
Deleted == {i \in 1..maxPackageId : ~Stored(i)}

NoDangling == \A i \in DOMAIN nextCrawl \cup DOMAIN popular : Stored(i)

\* An IncrementPopularScore of a path that is not in ids returns no error
\* and leaves popular and popular:0 as they were.
UnknownIncrementDropped ==
    \A path \in Paths, t \in PopTimes :
        path \notin DOMAIN ids /\ inflight' = inflight
            /\ IncrementPopularScore(path, t) =>
            ret' = <<"">> /\ popular' = popular /\ popular0' = popular0

\* A Delete takes the id of its path out of both sorted sets.
DeleteClears ==
    \A path \in Paths :
        path \in DOMAIN ids /\ path \notin DOMAIN ids' /\ Delete(path) =>
            ids[path] \notin DOMAIN popular' \cup DOMAIN nextCrawl'

\* No step puts the id of a deleted package into a sorted set, or hands it
\* to a package again.
DeletedStaysOut ==
    \A i \in Deleted :
        i \notin DOMAIN popular' \cup DOMAIN nextCrawl' /\ ~Stored(i)'

\* C30: in every reachable state every member of nextCrawl and of popular is
\* the id of a stored package (it has an ids entry and a pkg hash); an
\* IncrementPopularScore of a path not in ids returns no error and changes
\* neither popular nor popular:0; and after a Delete the id of the deleted
\* package is in neither sorted set, whatever calls follow, the increments
\* for the deleted path among them.
SortedSetsHoldStoredIds ==
    /\ []NoDangling
    /\ [][UnknownIncrementDropped /\ DeleteClears /\ DeletedStaysOut]_vars

\* The first package has been deleted, an increment has set popular:0, and
\* the second package is in both sorted sets while the id of the first is in
\* neither.
SortedSetsHoldStoredIdsReached ==
    /\ maxPackageId = 2
    /\ Deleted = {1}
    /\ popular0 # <<>>
    /\ DOMAIN popular = {2}
    /\ DOMAIN nextCrawl = {2}
    /\ inflight = {}

----------------------------------------------------------------------------
(* The frame of Put and Delete *)

\* The score of id j in the sorted set z, <<>> when j is not a member.
ScoreOf(z, j) == IF j \in DOMAIN z THEN <<z[j]>> ELSE <<>>

\* The paths that ids maps to j.
PathsOf(f, j) == {p \in DOMAIN f : f[p] = j}

\* The step leaves everything of id j as it was: its membership in every
\* index set, the hash pkg:j, its ids entry, and its scores in nextCrawl and
\* popular.
SameOf(j) ==
    /\ \A t \in DOMAIN index \cup DOMAIN index' :
          j \in Members(index, t) <=> j \in Members(index', t)
    /\ (j \in DOMAIN pkg) = (j \in DOMAIN pkg')
    /\ Hash(j, pkg) = Hash(j, pkg')
    /\ PathsOf(ids, j) = PathsOf(ids', j)
    /\ ScoreOf(nextCrawl, j) = ScoreOf(nextCrawl', j)
    /\ ScoreOf(popular, j) = ScoreOf(popular', j)

\* Every id handed out before or in the step, the id i apart.
OtherIds(i) == (1..maxPackageId') \ {i}

PutFrame ==
    \A pdoc \in LocalDocs, tm \in PutTimes :
        PutLeft(pdoc, tm) /\ Put(pdoc, tm) =>
            \A j \in OtherIds(ids'[pdoc.ImportPath]) : SameOf(j)

PutAddCrawlFrame ==
    \A c \in inflight :
        inflight' = inflight \ {c} /\ PutAddCrawl(c) =>
            \A j \in 1..maxPackageId' : SameOf(j)

DeleteFrame ==
    \A path \in Paths :
        inflight' = inflight /\ Delete(path) =>
            IF path \in DOMAIN ids
            THEN \A j \in OtherIds(ids[path]) : SameOf(j)
            ELSE \A j \in 1..maxPackageId' : SameOf(j)

\* C31: Put(doc), in both of its round trips, and Delete(p) leave every
\* other id j as it was, also when the two packages share terms: the
\* membership of j in every index set, the hash pkg:j, the ids entry of j,
\* and the scores of j in nextCrawl and popular are the same before and
\* after the step.
PutDeleteTouchOwnPackage == [][PutFrame /\ PutAddCrawlFrame /\ DeleteFrame]_vars

\* The package below the root was stored first and never deleted, the root
\* was stored after it, the two share the index set of their project, the
\* root is stored without the terms of its synopsis, and the package below
\* it has its terms and a score in each sorted set.
PutDeleteTouchOwnPackageReached ==
    /\ DOMAIN ids = {PRoot, PSub}
    /\ ids[PSub] = 1
    /\ ids[PRoot] = 2
    /\ Members(index, <<"project:", "a", ".", "b">>) = {1, 2}
    /\ Members(index, <<"parser">>) = {1}
    /\ 1 \in DOMAIN popular
    /\ 1 \in DOMAIN nextCrawl

============================================================================
